---- MODULE Spec2Model ----
(***************************************************************************)
(* Perlin-noise terrain generator: the worker life cycle (the controller   *)
(* TerrainWorkerController, the public generateRivers with its main-thread *)
(* fallback, the terrain worker's message protocol) and the droplet        *)
(* hydrology simulation.                                                   *)
(*                                                                         *)
(* Specification Spec is the life cycle: JavaScript's run-to-completion    *)
(* semantics is kept (one action is one synchronous stretch of code: a     *)
(* call up to its first await, a promise continuation, a message handler,  *)
(* a timer), promise continuations run from a FIFO microtask queue before  *)
(* any further message or timer is handled, and each worker is a thread of *)
(* its own with an inbox and an outbox.  The contents of the main thread's *)
(* rasters are inputs of Spec (they are produced by generateTerrain and by *)
(* earlier erosion); the droplet simulation itself is specified cell by    *)
(* cell in SpecDroplet.                                                    *)
(***************************************************************************)
EXTENDS Integers, Sequences, FiniteSets, TLC

VARIABLES
    state,        \* TerrainWorkerController.state
    worker,       \* TerrainWorkerController.worker: 0 is null, else a Worker id
    initPromise,  \* TerrainWorkerController.initPromise: 0 is null, w > 0 the
                  \* promise made by the init() that created Worker w, -1 a
                  \* promise made by an init() whose `new Worker` threw
    nextWorker,   \* the id the next `new Worker` gets
    wk,           \* the Worker objects and the worker threads behind them
    calls,        \* the calls of the public generateRivers
    microtasks,   \* the main thread's microtask queue: calls to be continued
    taskOpen,     \* the synchronous code that issued the last call still runs
    fsmLog,       \* history: the writes of controller.state made by the last
                  \* action, each with the state before and the event
    droplet,      \* SpecDroplet: one run of simulateDroplet after another, with
                  \* the mapData it works on
    hydro,        \* SpecHydro: the main thread's seed, generator and rasters,
                  \* the worker's, and the history of the requests served
    infiniteMap,  \* SpecBlocks: the BlockManager, the camera and the clock of
                  \* the infinite map
    drag,         \* SpecDrag: the closure of setupMapDragging and its timers
    moistureMap,  \* SpecMoisture: mapData's moisture, baseMoisture and flux
    perlin        \* SpecNoise: the PerlinNoise instance and what it returned

ctlVars == <<state, worker, initPromise, nextWorker, wk>>
pageVars == <<infiniteMap, drag, moistureMap, perlin>>

----------------------------------------------------------------------------
(* Bounds of the model *)

\* calls of the public generateRivers in one behaviour
NumCalls == 3
\* Worker objects the browser hands out; a further `new Worker` throws
MaxWorkers == 2
\* raster dimensions of the model's terrains (MAP_CONFIG is 300 x 200)
MapWidth == 2
MapHeight == 2
\* RIVER_GEN_CONSTANTS.MAX_DROPLET_ITERATIONS is 1000 for the 300 x 200 map;
\* scaled with the map, so that paths of the model's rasters reach the cap
MAX_DROPLET_ITERATIONS == 3
\* runs of simulateDroplet on one raster in SpecDroplet
MaxDroplets == 2
\* the generator of noise.js counts modulo this instead of 2^32
RngModulus == 256
\* SpecHydro: the seeds and the requests served one after another
MaxSeed == 2
MaxRequests == 2
\* SpecBlocks: BLOCK_CONFIG is 3000 x 2000 world units a block, 9 blocks
\* cached, blocks unloaded beyond 2 blocks, under a canvas of 300 x 200; the
\* model keeps the canvas smaller than a block and the budget at the blocks
\* one canvas can lie on but below the blocks within the unload distance
WIDTH == 3
HEIGHT == 3
MAX_CACHED == 4
UNLOAD_DISTANCE == 1
CanvasWidth == 2
CanvasHeight == 2
\* the blocks the camera gets to: -MaxBlockX..MaxBlockX of the row 0
MaxBlockX == 1
\* the mousemove events of one behaviour and the readings of Date.now()
MaxMoves == 5
MaxTime == 1
\* SpecDrag: the timeouts and animation frames requested in one behaviour,
\* the mousemove handlers suspended at once and the drags counted
MaxHandles == 5
MaxMoving == 2
MaxDrags == 2
\* SpecNoise: PERLIN_CONSTANTS.PERMUTATION_SIZE is 256; the seedings, the
\* numbers drawn from noise.random() and the octaves of an fbm call
PERMUTATION_SIZE == 4
MaxSeedings == 3
MaxConsumed == 2
MaxOctaves == 2

(* Program constants *)

\* the QA test issues 5 calls of generateRivers(1000) in one loop
BurstSize == 5
\* its numDroplets argument
BurstDroplets == 1000

\* PROGRESS_CONSTANTS.CHUNK_SIZE
CHUNK_SIZE == 500

\* Heights and water volumes are fixed-point numbers, in ten-thousandths
\* (every constant below is a whole number of them); a product is
\* truncated.
Unit == 100 * 100
\* terrainConfig.seaLevel = 0.35
SeaLevel == 3500
\* RIVER_GEN_CONSTANTS: 0.003, 0.008, 0.01, 0.02, 1.0, 0.01
EROSION_RATE == 30
DEPOSITION_RATE == 80
MIN_SLOPE_FOR_EROSION == 100
EVAPORATION_RATE == 200
INITIAL_WATER_VOLUME == 10000
MIN_WATER_VOLUME == 100
\* LAKE_CONSTANTS.MIN_LAKE_DEPTH = 0.02
MIN_LAKE_DEPTH == 200
\* OVERFLOW_TOLERANCE = 0.001 of the worker's simulateDroplet
OVERFLOW_TOLERANCE == 10
\* RIVER_GEN_CONSTANTS: FLUX_TO_MOISTURE_COEFF = 0.005, MAX_MOISTURE_BONUS =
\* 0.5, MOISTURE_INCREMENT_EPSILON = 0.001, SPREAD_BONUS_DECAY = 0.5,
\* SMOOTH_CENTER_WEIGHT = 0.4, SMOOTH_NEIGHBOR_WEIGHT = 0.15
FLUX_TO_MOISTURE_COEFF == 50
MAX_MOISTURE_BONUS == 5000
MOISTURE_INCREMENT_EPSILON == 10
SPREAD_BONUS_DECAY == 5000
SMOOTH_CENTER_WEIGHT == 4000
SMOOTH_NEIGHBOR_WEIGHT == 1500
\* GAUSSIAN_KERNEL_3X3: 0.077, 0.123 and 0.200
GAUSSIAN_KERNEL_3X3 == <<770, 1230, 770, 1230, 2000, 1230, 770, 1230, 770>>
\* PERLIN_CONSTANTS: MULBERRY32_MAGIC (0x6D2B79F5, its low byte),
\* MULBERRY32_MULTIPLIER_2, MULBERRY32_SHIFT_2
MULBERRY32_MAGIC == 245
MULBERRY32_MULTIPLIER_2 == 61
MULBERRY32_SHIFT_2 == 7

CallIds == 1..NumCalls
WorkerIds == 1..MaxWorkers
Cells == 0..(MapWidth * MapHeight - 1)
\* numDroplets arguments: invalid, none, one chunk, two chunks (the QA test's)
DropletCounts == {-1, 0, 500, 1000}

Min(a, b) == IF a < b THEN a ELSE b

----------------------------------------------------------------------------
(* JavaScript values of the worker: tagged, since mapData.height may hold a *)
(* typed array or a number.                                                *)

Undefined == [t |-> "undefined"]
Null == [t |-> "null"]
Num(n) == [t |-> "number", v |-> n]
F32(a) == [t |-> "Float32Array", v |-> a]

\* An object literal { k1: v1, k2: v2, ... }: a key written twice keeps the
\* value written last.
ObjectLiteral(pairs) ==
    [k \in {pairs[i][1] : i \in DOMAIN pairs} |->
        LET last == CHOOSE i \in DOMAIN pairs :
                        /\ pairs[i][1] = k
                        /\ \A j \in DOMAIN pairs : pairs[j][1] = k => j <= i
        IN pairs[last][2]]

\* obj[index]: indexing a number yields undefined
Index(obj, i) ==
    IF obj.t = "Float32Array" /\ (i + 1) \in DOMAIN obj.v THEN Num(obj.v[i + 1])
    ELSE Undefined

\* a > b for a JavaScript value a and a number b: undefined > b is false
Greater(a, b) == a.t = "number" /\ a.v > b

\* The height rasters the main thread may hold when init() snapshots them.
ZeroRaster == [i \in 1..(MapWidth * MapHeight) |-> 0]
OceanRaster == [i \in 1..(MapWidth * MapHeight) |-> SeaLevel - 500]
LandRaster == [i \in 1..(MapWidth * MapHeight) |-> SeaLevel + 1000 + 300 * i]
CoastRaster == [i \in 1..(MapWidth * MapHeight) |->
                   IF i = 1 THEN SeaLevel - 500 ELSE SeaLevel + 1000 + 300 * i]
HeightSamples == {OceanRaster, LandRaster, CoastRaster}

----------------------------------------------------------------------------
(* simulateDroplet: the worker's (terrain.worker.js) and the main thread's *)
(* of the fallback (terrain.js), one loop iteration at a time.  d is the   *)
(* run: its locals and the mapData it reads and writes.                    *)

NoDroplet == [mode |-> "idle"]

NoHydro == [phase |-> "idle"]

\* the other parts of the page, before they are set up
NoInfiniteMap == [phase |-> "idle"]
NoDrag == [phase |-> "idle"]
NoMoistureMap == [phase |-> "idle"]
NoPerlin == [phase |-> "idle"]

\* the eight neighbours in the order both functions scan them
Neighbors ==
    << <<-1, -1>>, <<0, -1>>, <<1, -1>>,
       <<-1, 0>>,             <<1, 0>>,
       <<-1, 1>>,  <<0, 1>>,  <<1, 1>> >>

\* a < b for JavaScript values: false when either is undefined
Less(a, b) == a.t = "number" /\ b.t = "number" /\ a.v < b.v

\* `ny >= height` of the worker's bounds check, height taken from mapData:
\* a comparison with a typed array is false
AtLeast(n, a) == a.t = "number" /\ n >= a.v

\* the scan for the strictly lowest neighbour of (x, y), starting from the
\* height `from` of the cell itself: the first of the lowest in scan order.
\* width and rows are the bounds the caller checks against.
LowestNeighbor(heights, width, rows, x, y, from) ==
    LET scan[i \in 0..Len(Neighbors)] ==
            IF i = 0 THEN [height |-> from, x |-> x, y |-> y]
            ELSE LET nx == x + Neighbors[i][1]
                     ny == y + Neighbors[i][2]
                     neighborHeight == Index(heights, ny * width.v + nx)
                 IN IF nx < 0 \/ AtLeast(nx, width) \/ ny < 0 \/ AtLeast(ny, rows)
                    THEN scan[i - 1]
                    ELSE IF Less(neighborHeight, scan[i - 1].height)
                    THEN [height |-> neighborHeight, x |-> nx, y |-> ny]
                    ELSE scan[i - 1]
    IN scan[Len(Neighbors)]

\* typedArray[index] = value
SetAt(arr, index, value) ==
    IF arr.t = "Float32Array" /\ (index + 1) \in DOMAIN arr.v
    THEN [arr EXCEPT !.v[index + 1] = value]
    ELSE arr

\* a lake mark with no test of the depth
LakeDepthAlways(h) == TRUE

\* `updatedHeight > seaLevel + MIN_LAKE_DEPTH`, the test before every
\* `mapData.lakes[currentIndex] = 1`
LakeDepthReached(h) == h > SeaLevel + MIN_LAKE_DEPTH

\* the droplet stops: break
Break(d) == [d EXCEPT !.running = FALSE]

\* `iter < MAX_DROPLET_ITERATIONS` of the worker's for loop
WorkerLoopCondition(d) == d.iter < MAX_DROPLET_ITERATIONS

\* the end of an iteration of the worker's loop that moves the droplet to
\* the cell `to`: pathLength++, then iter++ and the test of the loop
WorkerAdvance(d, to) ==
    LET moved == [d EXCEPT !.x = to.x, !.y = to.y,
                           !.pathLength = @ + 1,
                           !.iter = @ + 1]
    IN [moved EXCEPT !.running = WorkerLoopCondition(moved)]

\* the overflow decision, on the droplet f with its cell filled to
\* newHeight and `over` the lowest neighbour of the filled cell
WorkerSpill(f, key, newHeight, over) ==
    IF /\ newHeight >= over.height.v - OVERFLOW_TOLERANCE
       /\ over.x # f.x \/ over.y # f.y
    THEN WorkerAdvance(f, over)
    ELSE Break([f EXCEPT !.mapData["lakes"] =
                            IF LakeDepthReached(newHeight)
                            THEN SetAt(@, key, 1) ELSE @])

\* a local minimum: stop if an overflow was tried here before, else
\* deposit and look for the lowest neighbour again
WorkerLocalMinimum(c, key, currentHeight, newHeight) ==
    IF key \in c.closedSet
    THEN Break([c EXCEPT !.mapData["lakes"] =
                            IF LakeDepthReached(currentHeight.v)
                            THEN SetAt(@, key, 1) ELSE @])
    ELSE WorkerSpill([c EXCEPT !.mapData["height"] = SetAt(@, key, newHeight),
                               !.closedSet = @ \union {key}],
                     key, newHeight,
                     LowestNeighbor(SetAt(c.mapData["height"], key, newHeight),
                                    c.mapData["width"], c.mapData["height"],
                                    c.x, c.y, Num(newHeight)))

\* a lower neighbour: erode by the slope and move there
WorkerDownhill(c, key, currentHeight, low) ==
    LET slope == currentHeight.v - low.height.v
        erosionAmount == (((EROSION_RATE * c.waterVolume) \div Unit) * slope) \div Unit
    IN WorkerAdvance(
          [c EXCEPT !.mapData["height"] =
                       IF slope > MIN_SLOPE_FOR_EROSION
                       THEN (IF currentHeight.v - erosionAmount >= SeaLevel
                             THEN SetAt(@, key, currentHeight.v - erosionAmount)
                             ELSE SetAt(@, key, SeaLevel))
                       ELSE @],
          low)

\* the iteration from `mapData.flux[currentIndex] += 1` on, `low` being the
\* lowest neighbour found by the scan
WorkerFlow(d2, key, currentHeight, low) ==
    LET counted == [d2 EXCEPT !.mapData["flux"] =
                                 SetAt(@, key, Index(@, key).v + 1)]
    IN IF low.x = d2.x /\ low.y = d2.y
       THEN WorkerLocalMinimum(counted, key, currentHeight,
                               currentHeight.v
                               + (DEPOSITION_RATE * d2.waterVolume) \div Unit)
       ELSE WorkerDownhill(counted, key, currentHeight, low)

\* the loop body for the cell `key` of height currentHeight, waterVolume
\* being the volume after this iteration's evaporation
WorkerBody(d, key, currentHeight, waterVolume) ==
    LET d1 == [d EXCEPT !.iterations = @ + 1, !.visited = @ \union {key}]
        d2 == [d1 EXCEPT !.waterVolume = waterVolume]
    IN IF key \in d.visited THEN Break([d EXCEPT !.iterations = @ + 1])
       ELSE IF currentHeight.t # "number" THEN Break(d1)
       ELSE IF waterVolume < MIN_WATER_VOLUME THEN Break(d2)
       ELSE IF currentHeight.v <= SeaLevel THEN Break(d2)
       ELSE WorkerFlow(d2, key, currentHeight,
                       LowestNeighbor(d.mapData["height"], d.mapData["width"],
                                      d.mapData["height"],  \* const { width, height } = mapData
                                      d.x, d.y, currentHeight))

\* one iteration of the worker's loop, from the loop body's first statement
\* to the test of the loop condition
WorkerIteration(d) ==
    WorkerBody(d, d.y * d.mapData["width"].v + d.x,
               Index(d.mapData["height"], d.y * d.mapData["width"].v + d.x),
               d.waterVolume - EVAPORATION_RATE)

\* a loop that never tests its cap
FallbackLoopForever(d) == TRUE

\* `pathLength < MAX_DROPLET_ITERATIONS` of the fallback's while loop
FallbackLoopCondition(d) == d.pathLength < MAX_DROPLET_ITERATIONS

\* the end of an iteration of the fallback's loop that moves the droplet
\* to the cell `to`: the evaporation, then the test of the loop
FallbackAdvance(d, to) ==
    LET moved == [d EXCEPT !.x = to.x, !.y = to.y,
                           !.waterVolume = (@ * (Unit - EVAPORATION_RATE)) \div Unit]
    IN [moved EXCEPT !.running = FallbackLoopCondition(moved)]

\* the overflow decision, on the droplet f with its cell filled to
\* updatedHeight and `over` the lowest neighbour of the filled cell
FallbackSpill(f, updatedHeight, over) ==
    IF /\ updatedHeight >= over.height.v
       /\ over.x # f.x \/ over.y # f.y
    THEN FallbackAdvance(f, over)
    ELSE Break(f)

\* a local minimum: deposit, mark the lake, look for the lowest neighbour
\* again
FallbackLocalMinimum(c, key, updatedHeight) ==
    FallbackSpill([c EXCEPT !.mapData["height"] = SetAt(@, key, updatedHeight),
                            !.mapData["lakes"] =
                                IF LakeDepthReached(updatedHeight)
                                THEN SetAt(@, key, 1) ELSE @],
                  updatedHeight,
                  LowestNeighbor(SetAt(c.mapData["height"], key, updatedHeight),
                                 Num(MapWidth), Num(MapHeight),
                                 c.x, c.y, Num(updatedHeight)))

\* a lower neighbour: erode and move there
FallbackDownhill(c, key, currentHeight, low) ==
    LET slope == currentHeight.v - low.height.v
        erosionAmount == (EROSION_RATE * c.waterVolume) \div Unit
    IN FallbackAdvance(
          [c EXCEPT !.mapData["height"] =
                       IF slope > MIN_SLOPE_FOR_EROSION
                       THEN (IF currentHeight.v - erosionAmount < SeaLevel
                             THEN SetAt(@, key, SeaLevel)
                             ELSE SetAt(@, key, currentHeight.v - erosionAmount))
                       ELSE @],
          low)

\* the loop body for the cell `key` of height currentHeight
FallbackBody(d, key, currentHeight, low) ==
    LET d1 == [d EXCEPT !.iterations = @ + 1]
        d2 == [d1 EXCEPT !.mapData["flux"] = SetAt(@, key, Index(@, key).v + 1),
                         !.pathLength = @ + 1]
        d3 == [d2 EXCEPT !.visited = @ \union {key}]
    IN IF currentHeight.v <= SeaLevel THEN Break(d1)
       ELSE IF d.waterVolume < MIN_WATER_VOLUME THEN Break(d1)
       ELSE IF key \in d.visited THEN Break(d2)
       ELSE IF low.x = d.x /\ low.y = d.y
       THEN FallbackLocalMinimum(d3, key,
                                 currentHeight.v
                                 + (DEPOSITION_RATE * d.waterVolume) \div Unit)
       ELSE FallbackDownhill(d3, key, currentHeight, low)

\* one iteration of the fallback's loop; the main thread's mapData.height is
\* a Float32Array and its bounds are MAP_CONFIG's
FallbackIteration(d) ==
    FallbackBody(d, d.y * MapWidth + d.x,
                 Index(d.mapData["height"], d.y * MapWidth + d.x),
                 LowestNeighbor(d.mapData["height"], Num(MapWidth), Num(MapHeight),
                                d.x, d.y,
                                Index(d.mapData["height"], d.y * MapWidth + d.x)))

\* no iteration of this run yet
NoStep == [taken |-> FALSE, x |-> 0, y |-> 0, waterVolume |-> 0,
           height |-> Null, lakes |-> <<>>]

\* what the iteration about to be made starts from
BeforeStep(d) ==
    [taken |-> TRUE, x |-> d.x, y |-> d.y, waterVolume |-> d.waterVolume,
     height |-> d.mapData["height"], lakes |-> d.mapData["lakes"].v]

\* the locals of a run of simulateDroplet not begun yet, on mapData md
DropletOn(mode, md) ==
    [mode |-> mode, mapData |-> md,
     runs |-> 0,         \* runs of simulateDroplet begun
     running |-> FALSE,  \* inside the loop
     x |-> 0, y |-> 0, waterVolume |-> 0, pathLength |-> 0,
     iter |-> 0,         \* the worker's loop variable
     iterations |-> 0,   \* history: loop bodies entered in this run
     prev |-> NoStep,    \* history: the droplet and the rasters before the
                         \* last iteration
     visited |-> {}, closedSet |-> {}]

\* simulateDroplet(startX, startY) up to the first test of its loop
BeginDroplet(d0, startX, startY) ==
    LET d == [d0 EXCEPT
                 !.runs = @ + 1,
                 !.x = startX, !.y = startY,
                 !.waterVolume = INITIAL_WATER_VOLUME,
                 !.pathLength = 0, !.iter = 0, !.iterations = 0,
                 !.prev = NoStep,
                 !.visited = {}, !.closedSet = {}]
    IN [d EXCEPT !.running = IF d.mode = "worker" THEN WorkerLoopCondition(d)
                             ELSE FallbackLoopCondition(d)]

\* simulateDroplet to its return
RECURSIVE SimulateDroplet(_)
SimulateDroplet(d) ==
    IF ~d.running THEN d
    ELSE IF d.mode = "worker" THEN SimulateDroplet(WorkerIteration(d))
    ELSE SimulateDroplet(FallbackIteration(d))

----------------------------------------------------------------------------
(* noise.js: the seeded generator behind noise.random().  mulberry32 is   *)
(* kept as what it is to its callers, a state that every call advances    *)
(* by the magic constant and a number in [0, 1) scrambled from the state, *)
(* at the width RngModulus instead of 2^32.                               *)

\* mulberry32(seed): the state of the closure returned
Mulberry32(seed) == seed % RngModulus

\* one call of the closure: its state afterwards and the number returned,
\* as a count of RngModulus-ths
NextRandom(rng) ==
    LET s == (rng + MULBERRY32_MAGIC) % RngModulus
    IN [rng |-> s,
        out |-> (s * MULBERRY32_MULTIPLIER_2 + s \div MULBERRY32_SHIFT_2) % RngModulus]

\* noise.init(seed): this.rng = this.mulberry32(seed)
NoiseInit(seed) == Mulberry32(seed)

\* new PerlinNoise(): the constructor ends with this.init(0)
NewNoise == NoiseInit(0)

\* Math.floor(noise.random() * landCoords.length), for random() = out
RandomIndex(out, length) == (out * length) \div RngModulus

----------------------------------------------------------------------------
(* The terrain worker (terrain.worker.js) *)

\* the module state of a worker thread whose script has just been loaded
NewWorkerThread ==
    [workerConfig |-> Null, mapData |-> Null,
     rng |-> NewNoise,   \* noise.rng of the worker's own noise module
     starts |-> <<>>]    \* history: the start cells of the last run's droplets

\* handleInit(config, data): keeps the config and copies the rasters into
\* the worker's own mapData; the literal writes the key `height` twice.
HandleInit(th, config, data) ==
    [th EXCEPT
        !.workerConfig = config,
        !.mapData = ObjectLiteral(<<
            <<"height", F32(data.height)>>,
            <<"moisture", F32(data.moisture)>>,
            <<"temperature", F32(data.temperature)>>,
            <<"flux", F32(data.flux)>>,
            <<"lakes", F32(data.lakes)>>,
            <<"width", Num(config.mapWidth)>>,
            <<"height", Num(config.mapHeight)>> >>)]

\* the cells of the scan `for y < height, for x < width` whose
\* mapData.height[index] > seaLevel, in scan order
LandCoords(md, seaLevel) ==
    LET w == md["width"]
        h == md["height"]
        n == IF w.t = "number" /\ h.t = "number" THEN w.v * h.v ELSE 0
    IN SelectSeq([i \in 1..n |-> i - 1],
                 LAMBDA idx : Greater(Index(md["height"], idx), seaLevel))

\* the progress messages of the chunk loop from chunkStart on
RECURSIVE ProgressMessages(_, _)
ProgressMessages(chunkStart, numDroplets) ==
    IF chunkStart < numDroplets
    THEN LET chunkEnd == Min(chunkStart + CHUNK_SIZE, numDroplets)
         IN <<[type |-> "progress", completed |-> chunkEnd, total |-> numDroplets]>>
            \o ProgressMessages(chunkStart + CHUNK_SIZE, numDroplets)
    ELSE <<>>

CompleteMessage(numDroplets, successful, flux, lakes) ==
    [type |-> "complete", totalDroplets |-> numDroplets,
     successfulDroplets |-> successful, flux |-> flux, lakes |-> lakes]

ErrorMessage == [type |-> "error"]

\* new Float32Array(totalPixels), all zero
Zeros(md) ==
    LET w == md["width"]
        h == md["height"]
        n == IF w.t = "number" /\ h.t = "number" THEN w.v * h.v ELSE 0
    IN [i \in 1..n |-> 0]

\* the droplets i .. numDroplets - 1 of the chunk loops: each draws its
\* start among landCoords and is simulated on the mapData the droplets
\* before left.  acc is [mapData, rng, successful, starts].
\* the loop body of droplet i: acc after simulateDroplet(startPos.x,
\* startPos.y) for the start cell drawn, r being the draw
Droplet(mode, acc, r, startPos) ==
    LET d == SimulateDroplet(BeginDroplet(DropletOn(mode, acc.mapData),
                                          startPos % MapWidth,
                                          startPos \div MapWidth))
    IN [acc EXCEPT !.mapData = d.mapData,
                   !.rng = r.rng,
                   !.successful = @ + (IF d.pathLength > 0 THEN 1 ELSE 0),
                   !.starts = Append(@, startPos)]

RECURSIVE Droplets(_, _, _, _, _)
Droplets(mode, acc, landCoords, i, numDroplets) ==
    IF i >= numDroplets THEN acc
    ELSE LET r == NextRandom(acc.rng)
         IN Droplets(mode,
                     Droplet(mode, acc, r,
                             landCoords[RandomIndex(r.out, Len(landCoords)) + 1]),
                     landCoords, i + 1, numDroplets)

\* a handleGenerateRivers whose pure-ocean branch does not return: the
\* chunk loop then reads landCoords[0].x of an empty array and throws
HandleGenerateRiversNoReturn(th, numDroplets) ==
    IF th.workerConfig = Null \/ th.mapData = Null
    THEN [th |-> th, posted |-> <<>>, threw |-> TRUE]
    ELSE LET zeros == Zeros(th.mapData)
             landCoords == LandCoords(th.mapData, th.workerConfig.seaLevel)
             after == [th EXCEPT !.mapData["flux"] = F32(<<>>),
                                 !.mapData["lakes"] = F32(<<>>),
                                 !.starts = <<>>]
         IN IF Len(landCoords) = 0
            THEN [th |-> after,
                  posted |-> <<CompleteMessage(numDroplets, 0, zeros, zeros)>>,
                  threw |-> TRUE]
            ELSE [th |-> after,
                  posted |-> ProgressMessages(0, numDroplets)
                             \o <<CompleteMessage(numDroplets, 0, zeros, zeros)>>,
                  threw |-> FALSE]

\* handleGenerateRivers(numDroplets): the worker's state afterwards, the
\* messages it posts, in order, and whether it threw.  The flux and lakes
\* buffers are made anew, and are detached (emptied) by the transfer in
\* the complete message.  With no land cell the run is cut short.
\* the end of handleGenerateRivers: the complete message with the rasters
\* and the count that `run`, the chunk loop, left, after its progress
\* messages
PostComplete(th, run, numDroplets) ==
    [th |-> [th EXCEPT !.mapData = [run.mapData EXCEPT !["flux"] = F32(<<>>),
                                                       !["lakes"] = F32(<<>>)],
                       !.rng = run.rng,
                       !.starts = run.starts],
     posted |-> ProgressMessages(0, numDroplets)
                \o <<CompleteMessage(numDroplets, run.successful,
                                     run.mapData["flux"].v,
                                     run.mapData["lakes"].v)>>,
     threw |-> FALSE]

HandleGenerateRivers(th, numDroplets) ==
    IF th.workerConfig = Null \/ th.mapData = Null
    THEN [th |-> th, posted |-> <<>>, threw |-> TRUE]
    ELSE LET zeros == Zeros(th.mapData)
             fresh == [th.mapData EXCEPT !["flux"] = F32(zeros),
                                         !["lakes"] = F32(zeros)]
             landCoords == LandCoords(fresh, th.workerConfig.seaLevel)
             detached(md) == [md EXCEPT !["flux"] = F32(<<>>),
                                        !["lakes"] = F32(<<>>)]
         IN IF Len(landCoords) = 0
            THEN [th |-> [th EXCEPT !.mapData = detached(fresh), !.starts = <<>>],
                  posted |-> <<CompleteMessage(numDroplets, 0, zeros, zeros)>>,
                  threw |-> FALSE]
            ELSE PostComplete(th,
                              Droplets("worker",
                                       [mapData |-> fresh, rng |-> th.rng,
                                        successful |-> 0, starts |-> <<>>],
                                       landCoords, 0, numDroplets),
                              numDroplets)

\* self.onmessage: the switch on cmd inside the try, and the catch that
\* reports any throw as an error message.  `oom` says the allocations of
\* the handler (new Float32Array) fail, which throws before anything is
\* posted.
WorkerOnMessage(th, m, oom) ==
    IF oom THEN [th |-> th, posted |-> <<ErrorMessage>>]
    ELSE IF m.cmd = "init"
    THEN [th |-> HandleInit(th, m.config, m.data),
          posted |-> <<[type |-> "initialized"]>>]
    ELSE IF m.cmd = "generateRivers"
    THEN LET r == HandleGenerateRivers(th, m.numDroplets)
         IN [th |-> r.th,
             posted |-> IF r.threw THEN r.posted \o <<ErrorMessage>> ELSE r.posted]
    ELSE [th |-> th, posted |-> <<ErrorMessage>>]

----------------------------------------------------------------------------
(* Worker objects as the main thread sees them *)

\* A Worker never created.
NoWorkerObject ==
    [status |-> "none",      \* none, alive, terminated
     onmessage |-> "none",   \* the handlers installed: none, init, gen
     owner |-> 0,            \* the call whose generation promise the gen
                             \* handlers settle
     promise |-> "none",     \* the init promise made with this worker
     inbox |-> <<>>,         \* commands posted, not yet handled
     outbox |-> <<>>,        \* messages and error events not yet delivered
     script |-> "unloaded",  \* unloaded, loaded, failed
     th |-> NewWorkerThread]

\* worker.terminate(): the thread stops and the queues both ways are dropped
Terminate(w) ==
    [w EXCEPT !.status = "terminated", !.inbox = <<>>, !.outbox = <<>>]

\* worker.postMessage(m): nothing reaches a terminated worker
PostMessage(w, m) ==
    IF w.status = "alive" THEN [w EXCEPT !.inbox = Append(@, m)] ELSE w

----------------------------------------------------------------------------
(* TerrainWorkerController (terrain.js); k is the controller with its      *)
(* workers: [state, worker, initPromise, nextWorker, wk]                   *)

Controller ==
    [state |-> state, worker |-> worker, initPromise |-> initPromise,
     nextWorker |-> nextWorker, wk |-> wk, log |-> <<>>]

\* this.state = to, logged with the event that caused it
Go(k, to, on) ==
    [k EXCEPT !.state = to,
              !.log = Append(@, [from |-> k.state, to |-> to, on |-> on])]

\* the configSnapshot and the rasters posted with the init command
InitCommand(height) ==
    [cmd |-> "init",
     config |-> [mapWidth |-> MapWidth, mapHeight |-> MapHeight, seaLevel |-> SeaLevel],
     data |-> [height |-> height, moisture |-> ZeroRaster,
               temperature |-> ZeroRaster, flux |-> ZeroRaster, lakes |-> ZeroRaster]]

\* a reset() that drops the worker reference without terminate()
ResetNoTerminate(k) ==
    [Go(k, "IDLE", "reset") EXCEPT !.worker = 0, !.initPromise = 0]

\* reset()
Reset(k) ==
    [Go(k, "IDLE", "reset") EXCEPT
        !.wk = IF k.worker # 0
               THEN [k.wk EXCEPT ![k.worker] = Terminate(@)]
               ELSE k.wk,
        !.worker = 0,
        !.initPromise = 0]

\* an init() with no early return: it makes a worker whatever the state
ControllerInitAlways(k, canCreate, height) ==
    LET k0 == IF k.state = "ERROR" THEN Reset(k) ELSE k
        w == k0.nextWorker
        k1 == Go(k0, "INITIALIZING", "init")
    IN IF canCreate /\ w <= MaxWorkers
       THEN [k |-> [k1 EXCEPT
                   !.worker = w,
                   !.nextWorker = w + 1,
                   !.initPromise = w,
                   !.wk[w] = PostMessage(
                       [NoWorkerObject EXCEPT !.status = "alive",
                                              !.onmessage = "init",
                                              !.promise = "pending"],
                       InitCommand(height))],
             ret |-> "promise", p |-> w]
       ELSE [k |-> [Go(k1, "ERROR", "creationFailure") EXCEPT !.initPromise = -1],
             ret |-> "promise", p |-> -1]

\* an init() that does not share the initialization in progress
ControllerInitNoShare(k, canCreate, height) ==
    IF k.state \in {"READY", "GENERATING"}
    THEN [k |-> k, ret |-> "void", p |-> 0]
    ELSE ControllerInitAlways(k, canCreate, height)

\* an init() that does not return early in READY and GENERATING
ControllerInitNoReturn(k, canCreate, height) ==
    IF k.state = "INITIALIZING"
    THEN [k |-> k, ret |-> "promise", p |-> k.initPromise]
    ELSE ControllerInitAlways(k, canCreate, height)

\* init(): `canCreate` says whether `new Worker` succeeds, `height` is
\* mapData.height at this moment.  ret is what the call returns: "void",
\* or "promise" with the promise p.
ControllerInit(k, canCreate, height) ==
    IF k.state = "INITIALIZING"
    THEN [k |-> k, ret |-> "promise", p |-> k.initPromise]
    ELSE IF k.state \in {"READY", "GENERATING"}
    THEN [k |-> k, ret |-> "void", p |-> 0]
    ELSE LET k0 == IF k.state = "ERROR" THEN Reset(k) ELSE k
             w == k0.nextWorker
             k1 == Go(k0, "INITIALIZING", "init")
         IN IF canCreate /\ w <= MaxWorkers
            THEN [k |-> [k1 EXCEPT
                        !.worker = w,
                        !.nextWorker = w + 1,
                        !.initPromise = w,
                        !.wk[w] = PostMessage(
                            [NoWorkerObject EXCEPT !.status = "alive",
                                                   !.onmessage = "init",
                                                   !.promise = "pending"],
                            InitCommand(height))],
                  ret |-> "promise", p |-> w]
            ELSE [k |-> [Go(k1, "ERROR", "creationFailure") EXCEPT !.initPromise = -1],
                  ret |-> "promise", p |-> -1]

\* a generateRivers of the controller that takes GENERATING for READY
ControllerGenerateRiversNoGuard(k, c, numDroplets) ==
    IF k.state \notin {"READY", "GENERATING"}
    THEN [k |-> k, out |-> "invalidState"]
    ELSE IF k.worker = 0
    THEN [k |-> Go(k, "GENERATING", "generate"), out |-> "typeError"]
    ELSE [k |-> [Go(k, "GENERATING", "generate") EXCEPT
                !.wk[k.worker] = PostMessage(
                    [@ EXCEPT !.onmessage = "gen", !.owner = c],
                    [cmd |-> "generateRivers", numDroplets |-> numDroplets])],
          out |-> "pending"]

\* generateRivers(numDroplets) of the controller, called by call c.
\* out: "concurrency" and "invalidState" are the two throws, "pending" the
\* promise returned, "typeError" that promise rejected by its executor.
ControllerGenerateRivers(k, c, numDroplets) ==
    IF k.state = "GENERATING"
    THEN [k |-> k, out |-> "concurrency"]
    ELSE IF k.state # "READY"
    THEN [k |-> k, out |-> "invalidState"]
    ELSE IF k.worker = 0
    THEN [k |-> Go(k, "GENERATING", "generate"), out |-> "typeError"]
    ELSE [k |-> [Go(k, "GENERATING", "generate") EXCEPT
                !.wk[k.worker] = PostMessage(
                    [@ EXCEPT !.onmessage = "gen", !.owner = c],
                    [cmd |-> "generateRivers", numDroplets |-> numDroplets])],
          out |-> "pending"]

\* worker.onmessage and worker.onerror as installed on Worker w, run on the
\* message or error event m.  settle: what the handler does to the promise
\* of its closure (resolve or reject of a settled promise does nothing).
ControllerOnMessage(k, w, m) ==
    LET h == k.wk[w].onmessage IN
    IF h = "init"
    THEN IF m.type = "initialized"
         THEN [k |-> Go(k, "READY", "ready"), settle |-> "resolve"]
         ELSE IF m.type \in {"error", "errorevent"}
         THEN [k |-> Go(k, "ERROR", "workerError"), settle |-> "reject"]
         ELSE [k |-> k, settle |-> "none"]
    ELSE IF h = "gen"
    THEN IF m.type = "complete"
         THEN [k |-> Go(k, "READY", "complete"), settle |-> "resolve"]
         ELSE IF m.type \in {"error", "errorevent"}
         THEN [k |-> Go(k, "ERROR", "workerError"), settle |-> "reject"]
         ELSE [k |-> k, settle |-> "none"]
    ELSE [k |-> k, settle |-> "none"]

----------------------------------------------------------------------------
(* The public generateRivers (terrain.js) and its fallback *)

NewCall ==
    [pc |-> "new",    \* new, awaitInit, afterInit, awaitGen, genDone, catch,
                      \* fallbackWait, resolved, rejected
     n |-> 0,         \* numDroplets
     err |-> "none",  \* the error caught or thrown: range, concurrency,
                      \* invalidState, typeError, creation, worker
     wait |-> 0,      \* the init promise awaited
     chunk |-> 0,     \* chunkStart of the fallback loop
     via |-> "none",  \* how the call resolved: skipped, worker, fallback
     op |-> "none"]   \* what was called: public (generateRivers of the
                      \* module), or init, generate (of the controller)

PromiseStatus(k, p) == IF p = -1 THEN "rejected" ELSE k.wk[p].promise

HasLand(height) == \E i \in DOMAIN height : height[i] > SeaLevel

\* the calls that satisfy Test, in the order they were issued
CallsWhere(Test(_)) == SelectSeq([i \in DOMAIN calls |-> i], Test)

SetController(k) ==
    /\ state' = k.state
    /\ worker' = k.worker
    /\ initPromise' = k.initPromise
    /\ nextWorker' = k.nextWorker
    /\ wk' = k.wk
    /\ fsmLog' = k.log

\* the action leaves the controller alone
SameController ==
    /\ UNCHANGED <<state, worker, initPromise, nextWorker, wk>>
    /\ fsmLog' = <<>>

\* `await workerController.init()` by call c: the call goes on in a
\* microtask once the promise returned is settled
AwaitInit(c, started, canCreate, height) ==
    LET r == ControllerInit(Controller, canCreate, height)
        st == IF r.ret = "void" THEN "resolved" ELSE PromiseStatus(r.k, r.p)
    IN /\ SetController(r.k)
       /\ calls' = [calls EXCEPT ![c] =
              IF st = "pending"
              THEN [started EXCEPT !.pc = "awaitInit", !.wait = r.p]
              ELSE IF st = "resolved"
              THEN [started EXCEPT !.pc = "afterInit"]
              ELSE [started EXCEPT !.pc = "catch",
                                   !.err = IF r.p = -1 THEN "creation" ELSE "worker"]]
       /\ microtasks' = IF st = "pending" THEN microtasks
                        ELSE Append(microtasks, c)

\* generateRivers(numDroplets) up to its first await: the argument checks
\* and `await workerController.init()`.  Calls are issued in the order of
\* their ids, from a task of their own or from the synchronous code that
\* issued the call before.
CallGenerateRivers(c, counts) ==
    /\ calls[c].pc = "new"
    /\ \A d \in DOMAIN calls : d < c => calls[d].pc # "new"
    /\ microtasks = <<>> \/ taskOpen
    /\ taskOpen' = TRUE
    /\ UNCHANGED <<droplet, hydro, pageVars>>
    /\ \E n \in counts, canCreate \in BOOLEAN, height \in HeightSamples :
        LET started == [calls[c] EXCEPT !.op = "public", !.n = n]
        IN IF n < 0
           THEN /\ calls' = [calls EXCEPT ![c] = [started EXCEPT !.pc = "rejected",
                                                                !.err = "range"]]
                /\ SameController
                /\ UNCHANGED microtasks
           ELSE IF n = 0
           THEN /\ calls' = [calls EXCEPT ![c] = [started EXCEPT !.pc = "resolved",
                                                                !.via = "skipped"]]
                /\ SameController
                /\ UNCHANGED microtasks
           ELSE AwaitInit(c, started, canCreate, height)

\* after `await workerController.init()`: noise.init(seed), then
\* workerController.generateRivers(numDroplets); a throw or a rejection
\* reaches the catch block in a later microtask
ContinueAfterInit(c) ==
    /\ microtasks # <<>> /\ Head(microtasks) = c
    /\ calls[c].pc = "afterInit"
    /\ taskOpen' = FALSE
    /\ UNCHANGED <<droplet, hydro, pageVars>>
    /\ LET r == ControllerGenerateRivers(Controller, c, calls[c].n)
       IN /\ SetController(r.k)
          /\ IF r.out = "pending"
             THEN /\ calls' = [calls EXCEPT ![c].pc = "awaitGen"]
                  /\ microtasks' = Tail(microtasks)
             ELSE /\ calls' = [calls EXCEPT ![c].pc = "catch", ![c].err = r.out]
                  /\ microtasks' = Append(Tail(microtasks), c)

\* after `await workerController.generateRivers(...)` resolved: statistics
ContinueGenDone(c) ==
    /\ microtasks # <<>> /\ Head(microtasks) = c
    /\ calls[c].pc = "genDone"
    /\ taskOpen' = FALSE
    /\ UNCHANGED <<droplet, hydro, pageVars>>
    /\ calls' = [calls EXCEPT ![c].pc = "resolved", ![c].via = "worker"]
    /\ microtasks' = Tail(microtasks)
    /\ SameController

\* one pass of generateRiversFallback's chunk loop from chunkStart, up to
\* its await of the timer or to its return
FallbackChunk(call, chunkStart) ==
    LET chunkEnd == Min(chunkStart + CHUNK_SIZE, call.n)
    IN IF chunkEnd < call.n
       THEN [call EXCEPT !.pc = "fallbackWait", !.chunk = chunkStart]
       ELSE [call EXCEPT !.pc = "resolved", !.via = "fallback"]

\* generateRiversFallback up to its first await: flux and lakes are
\* zeroed, the land cells of mapData.height collected, and the first chunk
\* of droplets run
FallbackStart(call, height) ==
    IF ~HasLand(height)
    THEN [call EXCEPT !.pc = "resolved", !.via = "fallback"]
    ELSE FallbackChunk(call, 0)

\* a catch block that falls back on every error
CatchBlockAlwaysFallback(k, call, height) ==
    [k |-> Reset(k), call |-> FallbackStart(call, height)]

\* a catch block that falls back without reset()
CatchBlockNoReset(k, call, height) ==
    IF call.err = "concurrency"
    THEN [k |-> k, call |-> [call EXCEPT !.pc = "rejected"]]
    ELSE [k |-> k, call |-> FallbackStart(call, height)]

\* the catch block: the concurrency error is thrown on; any other error
\* resets the controller and runs the fallback
CatchBlock(k, call, height) ==
    IF call.err = "concurrency"
    THEN [k |-> k, call |-> [call EXCEPT !.pc = "rejected"]]
    ELSE [k |-> Reset(k), call |-> FallbackStart(call, height)]

ContinueCatch(c) ==
    /\ microtasks # <<>> /\ Head(microtasks) = c
    /\ calls[c].pc = "catch"
    /\ taskOpen' = FALSE
    /\ UNCHANGED <<droplet, hydro, pageVars>>
    /\ \E height \in HeightSamples :
        LET r == CatchBlock(Controller, calls[c], height)
        IN /\ SetController(r.k)
           /\ calls' = [calls EXCEPT ![c] = r.call]
    /\ microtasks' = Tail(microtasks)

\* the timer of `await new Promise(resolve => setTimeout(resolve, 0))`
\* fires and the chunk loop goes on
FallbackTimer(c) ==
    /\ microtasks = <<>>
    /\ calls[c].pc = "fallbackWait"
    /\ taskOpen' = FALSE
    /\ UNCHANGED <<droplet, hydro, pageVars>>
    /\ calls' = [calls EXCEPT ![c] = FallbackChunk(@, @.chunk + CHUNK_SIZE)]
    /\ SameController
    /\ UNCHANGED microtasks

\* the main thread takes the next message or error event of Worker w and
\* runs the handler installed on it; a promise settled by the handler
\* queues the continuations of the calls awaiting it
Deliver(w) ==
    /\ microtasks = <<>>
    /\ wk[w].status = "alive"
    /\ wk[w].outbox # <<>>
    /\ taskOpen' = FALSE
    /\ UNCHANGED <<droplet, hydro, pageVars>>
    /\ LET m == Head(wk[w].outbox)
           h == wk[w].onmessage
           r == ControllerOnMessage(Controller, w, m)
           settles == r.settle # "none"
           initWaiters == IF h = "init" /\ settles /\ wk[w].promise = "pending"
                          THEN CallsWhere(LAMBDA c : calls[c].pc = "awaitInit"
                                                     /\ calls[c].wait = w)
                          ELSE <<>>
           genWaiters == IF h = "gen" /\ settles
                         THEN CallsWhere(LAMBDA c : c = wk[w].owner
                                                    /\ calls[c].pc = "awaitGen")
                         ELSE <<>>
           woken == initWaiters \o genWaiters
           isWoken(c) == \E i \in DOMAIN woken : woken[i] = c
           k1 == [r.k EXCEPT
                    !.wk[w].outbox = Tail(@),
                    !.wk[w].promise =
                        IF h = "init" /\ settles /\ @ = "pending"
                        THEN (IF r.settle = "resolve" THEN "resolved" ELSE "rejected")
                        ELSE @]
       IN /\ SetController(k1)
          /\ calls' = [c \in DOMAIN calls |->
                 IF ~isWoken(c) THEN calls[c]
                 ELSE IF r.settle = "reject"
                 THEN [calls[c] EXCEPT !.pc = "catch", !.err = "worker"]
                 ELSE IF h = "init"
                 THEN [calls[c] EXCEPT !.pc = "afterInit"]
                 ELSE [calls[c] EXCEPT !.pc = "genDone"]]
          /\ microtasks' = microtasks \o woken

\* the worker thread runs self.onmessage on its next command
WorkerStep(w) ==
    /\ wk[w].status = "alive"
    /\ wk[w].script # "failed"
    /\ wk[w].inbox # <<>>
    /\ \E oom \in BOOLEAN :
        LET r == WorkerOnMessage(wk[w].th, Head(wk[w].inbox), oom)
        IN wk' = [wk EXCEPT ![w] = [@ EXCEPT !.script = "loaded",
                                             !.inbox = Tail(@),
                                             !.outbox = @ \o r.posted,
                                             !.th = r.th]]
    /\ fsmLog' = <<>>
    /\ UNCHANGED <<state, worker, initPromise, nextWorker, calls, microtasks, taskOpen, droplet, hydro, pageVars>>

\* the worker's module fails to load: an error event reaches worker.onerror
\* and no command is ever handled
WorkerScriptError(w) ==
    /\ wk[w].status = "alive"
    /\ wk[w].script = "unloaded"
    /\ wk' = [wk EXCEPT ![w] = [@ EXCEPT !.script = "failed",
                                         !.outbox = Append(@, [type |-> "errorevent"])]]
    /\ fsmLog' = <<>>
    /\ UNCHANGED <<state, worker, initPromise, nextWorker, calls, microtasks, taskOpen, droplet, hydro, pageVars>>

----------------------------------------------------------------------------
(* The inputs and the actions of SpecDroplet *)

\* The rasters of SpecDroplet: a plateau, a ramp, a pit deeper than one
\* deposit fills, a coast, and land so low that erosion reaches the sea
\* level.
PlateauRaster == [i \in 1..(MapWidth * MapHeight) |-> SeaLevel + 1000]
PitRaster == [i \in 1..(MapWidth * MapHeight) |->
                 IF i = 1 THEN SeaLevel + 300 ELSE SeaLevel + 2000]
LowRaster == [i \in 1..(MapWidth * MapHeight) |-> SeaLevel + 10 + 110 * i]
\* a pit that one deposit fills to just below its rim
RimRaster == [i \in 1..(MapWidth * MapHeight) |->
                 IF i = 1 THEN SeaLevel + 300 ELSE SeaLevel + 385]
DropletRasters == {PlateauRaster, LandRaster, PitRaster, CoastRaster, LowRaster,
                   RimRaster}

\* the mapData simulateDroplet works on: the worker's is what handleInit
\* made of the init command, the fallback's is the main thread's
DropletMapData(mode, raster) ==
    IF mode = "worker"
    THEN HandleInit(NewWorkerThread, InitCommand(raster).config,
                    InitCommand(raster).data).mapData
    ELSE ObjectLiteral(<< <<"height", F32(raster)>>,
                          <<"flux", F32(ZeroRaster)>>,
                          <<"lakes", F32(ZeroRaster)>> >>)

NewDroplet(mode, raster) == DropletOn(mode, DropletMapData(mode, raster))

\* a run of simulateDroplet begins at some cell
StartDroplet ==
    /\ droplet.mode # "idle"
    /\ ~droplet.running
    /\ droplet.runs < MaxDroplets
    /\ \E startX \in 0..(MapWidth - 1), startY \in 0..(MapHeight - 1) :
        droplet' = BeginDroplet(droplet, startX, startY)
    /\ UNCHANGED <<state, worker, initPromise, nextWorker, wk, calls, microtasks,
                   taskOpen, fsmLog, hydro, pageVars>>

WorkerDropletStep ==
    /\ droplet.mode = "worker"
    /\ droplet.running
    /\ droplet' = [WorkerIteration(droplet) EXCEPT !.prev = BeforeStep(droplet)]
    /\ UNCHANGED <<state, worker, initPromise, nextWorker, wk, calls, microtasks,
                   taskOpen, fsmLog, hydro, pageVars>>

FallbackDropletStep ==
    /\ droplet.mode = "fallback"
    /\ droplet.running
    /\ droplet' = [FallbackIteration(droplet) EXCEPT !.prev = BeforeStep(droplet)]
    /\ UNCHANGED <<state, worker, initPromise, nextWorker, wk, calls, microtasks,
                   taskOpen, fsmLog, hydro, pageVars>>

----------------------------------------------------------------------------
(* The inputs and the actions of SpecHydro: generateTerrain, setSeed and   *)
(* requests of generateRivers served one after another, each to its end,   *)
(* on the rasters the ones before left.  h is the main thread and the      *)
(* worker: [seed, noise, mapData, ctl, th, sent, regenerated, runs].       *)

\* the seeds of terrainConfig.seed
Seeds == 1..MaxSeed

\* land so flat towards the sea that no droplet erodes it
GentleRaster == [i \in 1..(MapWidth * MapHeight) |->
                    IF i <= MapWidth THEN SeaLevel + 50 ELSE SeaLevel - 10]
HydroRasters == {OceanRaster, LandRaster, GentleRaster, LowRaster}

\* the droplet counts requested, and what may fail in a request
HydroCounts == 0..MaxDroplets
Failures == {"none", "creation", "initialization", "generation"}

\* the main thread's mapData
MainMapData(height, flux, lakes) ==
    ObjectLiteral(<< <<"height", F32(height)>>,
                     <<"flux", F32(flux)>>,
                     <<"lakes", F32(lakes)>> >>)

\* generateTerrain(): seeds the generator and writes the height raster;
\* flux and lakes are left as they are
GenerateTerrainOn(h, raster) ==
    [h EXCEPT !.noise = NoiseInit(h.seed),
              !.mapData["height"] = F32(raster),
              !.regenerated = TRUE]

\* the page once loaded: generateTerrain() has run on rasters all zero
NewHydro(seed, raster) ==
    GenerateTerrainOn([phase |-> "loaded",
                       seed |-> seed,
                       noise |-> NewNoise,
                       mapData |-> MainMapData(ZeroRaster, ZeroRaster, ZeroRaster),
                       ctl |-> "IDLE",          \* workerController.state between requests
                       th |-> NewWorkerThread,  \* the thread of workerController.worker
                       sent |-> <<>>,           \* history: the height posted to it at init
                       regenerated |-> FALSE,   \* history: generateTerrain since the last request
                       runs |-> <<>>],          \* history: the requests served
                      raster)

\* the fallback's scan for land: getHeight(x, y) > terrainConfig.seaLevel
\* over MAP_CONFIG's bounds
MainLandCoords(md) ==
    SelectSeq([i \in 1..(MapWidth * MapHeight) |-> i - 1],
              LAMBDA idx : Greater(Index(md["height"], idx), SeaLevel))

\* mapData.flux.fill(0); mapData.lakes.fill(0)
ClearRasters(md) ==
    [md EXCEPT !["flux"] = F32([i \in DOMAIN md["flux"].v |-> 0]),
               !["lakes"] = F32([i \in DOMAIN md["lakes"].v |-> 0])]

\* generateRiversFallback(numDroplets) to its end: the rasters and the
\* generator afterwards, the start cells drawn, the mapData the droplets
\* began on and what the function returns
GenerateRiversFallback(md, rng, numDroplets) ==
    LET cleared == ClearRasters(md)
        landCoords == MainLandCoords(cleared)
        run == Droplets("fallback",
                        [mapData |-> cleared, rng |-> rng,
                         successful |-> 0, starts |-> <<>>],
                        landCoords, 0, numDroplets)
    IN IF Len(landCoords) = 0
       THEN [mapData |-> cleared, rng |-> rng, starts |-> <<>>,
             began |-> cleared, landCoords |-> landCoords, returned |-> Undefined]
       ELSE [mapData |-> run.mapData, rng |-> run.rng, starts |-> run.starts,
             began |-> cleared, landCoords |-> landCoords, returned |-> Undefined]

\* the counts by which a run raised flux, cell by cell
Visits(before, after) ==
    [i \in DOMAIN after["flux"].v |-> after["flux"].v[i] - before["flux"].v[i]]

\* the controller after `await workerController.init()` went well: a READY
\* controller keeps its worker, any other makes one and posts it the init
\* command with the rasters of the moment
InitDone(h) ==
    IF h.ctl = "READY" THEN h
    ELSE LET m == InitCommand(h.mapData["height"].v)
         IN [h EXCEPT !.ctl = "READY",
                      !.th = HandleInit(NewWorkerThread, m.config, m.data),
                      !.sent = m.data.height]

\* the record of a request in h.runs
RunRecord(h, numDroplets, failure) ==
    [numDroplets |-> numDroplets, failure |-> failure,
     seed |-> h.seed,
     sameTerrain |-> ~h.regenerated,
     heightBefore |-> h.mapData["height"].v,
     path |-> "skipped",      \* "worker", "fallback": where the droplets ran
     sent |-> <<>>,           \* the height posted at init to the worker that ran
     heightUsed |-> Null,     \* mapData.height as the run scanned it for land
     heightAfter |-> Null,    \* mapData.height as the run left it
     reseeded |-> FALSE,      \* noise.init(terrainConfig.seed) ran in the request
     rngBegan |-> h.noise,    \* the generator's state at the run's first draw
     landCoords |-> <<>>,
     starts |-> <<>>,
     visits |-> ZeroRaster,
     stats |-> Undefined,     \* what the run hands back
     flux |-> h.mapData["flux"].v,
     lakes |-> h.mapData["lakes"].v]

\* the catch block of generateRivers for an error other than the
\* concurrency error: reset(), then the fallback on the main thread
CatchAndFallback(h, rec) ==
    LET f == GenerateRiversFallback(h.mapData, h.noise, rec.numDroplets)
    IN [h EXCEPT
          !.ctl = "IDLE", !.th = NewWorkerThread, !.sent = <<>>,
          !.mapData = f.mapData,
          !.noise = f.rng,
          !.regenerated = FALSE,
          !.runs = Append(@, [rec EXCEPT
                                 !.path = "fallback",
                                 !.heightUsed = f.began["height"],
                                 !.heightAfter = f.mapData["height"],
                                 !.rngBegan = h.noise,
                                 !.landCoords = f.landCoords,
                                 !.starts = f.starts,
                                 !.visits = Visits(f.began, f.mapData),
                                 !.stats = f.returned,
                                 !.flux = f.mapData["flux"].v,
                                 !.lakes = f.mapData["lakes"].v])]

\* generateRivers(numDroplets), numDroplets >= 0, from the call to the
\* settling of its promise.  `failure` is the step of the worker path that
\* fails: `new Worker` throws, the worker answers init or generateRivers
\* with an error.
ServeRequest(h, numDroplets, failure) ==
    LET rec == RunRecord(h, numDroplets, failure)
        h1 == InitDone(h)
        h2 == [h1 EXCEPT !.noise = NoiseInit(h1.seed)]
        seeded == [rec EXCEPT !.reseeded = TRUE]
        r == HandleGenerateRivers(h2.th, numDroplets)
        complete == r.posted[Len(r.posted)]
        scanned == [h2.th.mapData EXCEPT !["flux"] = F32(Zeros(h2.th.mapData)),
                                         !["lakes"] = F32(Zeros(h2.th.mapData))]
    IN IF numDroplets = 0
       THEN [h EXCEPT !.regenerated = FALSE, !.runs = Append(@, rec)]
       ELSE IF failure \in {"creation", "initialization"}
       THEN CatchAndFallback(h, rec)
       ELSE IF failure = "generation"
       THEN CatchAndFallback(h2, seeded)
       ELSE [h2 EXCEPT
               !.th = r.th,
               !.mapData["flux"] = F32(complete.flux),
               !.mapData["lakes"] = F32(complete.lakes),
               !.regenerated = FALSE,
               !.runs = Append(@, [seeded EXCEPT
                                      !.path = "worker",
                                      !.sent = h2.sent,
                                      !.heightUsed = h2.th.mapData["height"],
                                      !.heightAfter = r.th.mapData["height"],
                                      !.rngBegan = h2.th.rng,
                                      !.landCoords = LandCoords(scanned, SeaLevel),
                                      !.starts = r.th.starts,
                                      !.visits = complete.flux,
                                      !.stats = [t |-> "stats",
                                                 successfulDroplets |->
                                                     complete.successfulDroplets],
                                      !.flux = complete.flux,
                                      !.lakes = complete.lakes])]

\* generateTerrain() on the current seed; the raster is what the noise
\* field and the terrain parameters of the moment make
GenerateTerrain ==
    /\ hydro.phase = "loaded"
    /\ Len(hydro.runs) < MaxRequests
    /\ \E raster \in HydroRasters : hydro' = GenerateTerrainOn(hydro, raster)
    /\ UNCHANGED <<state, worker, initPromise, nextWorker, wk, calls, microtasks,
                   taskOpen, fsmLog, droplet, pageVars>>

\* setSeed(input): only terrainConfig.seed changes
SetSeed ==
    /\ hydro.phase = "loaded"
    /\ Len(hydro.runs) < MaxRequests
    /\ \E seed \in Seeds : seed # hydro.seed /\ hydro' = [hydro EXCEPT !.seed = seed]
    /\ UNCHANGED <<state, worker, initPromise, nextWorker, wk, calls, microtasks,
                   taskOpen, fsmLog, droplet, pageVars>>

\* a request of generateRivers, awaited before the next
Request ==
    /\ hydro.phase = "loaded"
    /\ Len(hydro.runs) < MaxRequests
    /\ \E numDroplets \in HydroCounts, failure \in Failures :
        /\ failure \in {"creation", "initialization"} => hydro.ctl # "READY"
        /\ hydro' = ServeRequest(hydro, numDroplets, failure)
    /\ UNCHANGED <<state, worker, initPromise, nextWorker, wk, calls, microtasks,
                   taskOpen, fsmLog, droplet, pageVars>>

----------------------------------------------------------------------------
(* The infinite map: BlockManager (block_manager.js), the render loop and   *)
(* the dragging of startInfiniteMap (main.js), drawWorld (renderer.js).     *)
(* World coordinates are whole numbers; Date.now() is the field `now`,      *)
(* which ClockTick advances.                                                *)

\* `${blockX},${blockY}`
GetBlockKey(blockX, blockY) == <<blockX, blockY>>

\* new BlockData(blockX, blockY): the fields the cache reads
BlockData(blockX, blockY, now) ==
    [blockX |-> blockX, blockY |-> blockY, lastAccessTime |-> now]

\* new BlockManager(): blocks is the Map, in its insertion order
NewBlockManager == [blocks |-> <<>>, currentBlockX |-> 0, currentBlockY |-> 0]

WorldToBlockCoords(worldX, worldY) ==
    [blockX |-> worldX \div WIDTH, blockY |-> worldY \div HEIGHT]

\* this.blocks.get(key): the index of the entry, 0 for undefined
MapGet(blocks, key) ==
    IF \E i \in DOMAIN blocks : GetBlockKey(blocks[i].blockX, blocks[i].blockY) = key
    THEN CHOOSE i \in DOMAIN blocks :
             GetBlockKey(blocks[i].blockX, blocks[i].blockY) = key
    ELSE 0

\* this.blocks.delete(key)
MapDelete(blocks, key) ==
    LET Other(b) == GetBlockKey(b.blockX, b.blockY) # key
    IN  SelectSeq(blocks, Other)

GetOrCreateBlock(bm, blockX, blockY, now) ==
    LET at == MapGet(bm.blocks, GetBlockKey(blockX, blockY))
    IN  IF at = 0
        THEN [bm EXCEPT !.blocks = Append(@, BlockData(blockX, blockY, now))]
        ELSE [bm EXCEPT !.blocks[at].lastAccessTime = now]

\* the list of getRequiredBlocks, bx in the outer loop and by in the inner
GetRequiredBlocks(viewportX, viewportY, viewportWidth, viewportHeight) ==
    LET minX == viewportX - viewportWidth \div 2
        minY == viewportY - viewportHeight \div 2
        maxX == viewportX + viewportWidth \div 2
        maxY == viewportY + viewportHeight \div 2
        minBlock == WorldToBlockCoords(minX, minY)
        maxBlock == WorldToBlockCoords(maxX, maxY)
        columns == maxBlock.blockX - minBlock.blockX + 1
        rows == maxBlock.blockY - minBlock.blockY + 1
    IN  [i \in 1..(columns * rows) |->
            [blockX |-> minBlock.blockX + ((i - 1) \div rows),
             blockY |-> minBlock.blockY + ((i - 1) % rows)]]

\* Math.max(dx, dy) of the absolute differences
DistanceMin(block, currentBlockX, currentBlockY) ==
    LET dx == IF block.blockX >= currentBlockX THEN block.blockX - currentBlockX
              ELSE currentBlockX - block.blockX
        dy == IF block.blockY >= currentBlockY THEN block.blockY - currentBlockY
              ELSE currentBlockY - block.blockY
    IN  IF dx < dy THEN dx ELSE dy

Distance(block, currentBlockX, currentBlockY) ==
    LET dx == IF block.blockX >= currentBlockX THEN block.blockX - currentBlockX
              ELSE currentBlockX - block.blockX
        dy == IF block.blockY >= currentBlockY THEN block.blockY - currentBlockY
              ELSE currentBlockY - block.blockY
    IN  IF dx > dy THEN dx ELSE dy

\* the comparator of the sort in evictOldestBlocks is negative
NewerFirst(a, b) == b.lastAccessTime - a.lastAccessTime < 0

SortsBefore(a, b) == a.lastAccessTime - b.lastAccessTime < 0

\* the place of blocks[i] in blocksArray after the sort, which is stable
SortedPlace(blocks, i) ==
    Cardinality({j \in DOMAIN blocks :
                    \/ SortsBefore(blocks[j], blocks[i])
                    \/ ~SortsBefore(blocks[i], blocks[j]) /\ j < i}) + 1

EvictOldestBlocks(blocks) ==
    LET numToEvict == Len(blocks) - MAX_CACHED
        kept == {i \in DOMAIN blocks : SortedPlace(blocks, i) > numToEvict}
        Kept(b) == \E i \in kept : blocks[i] = b
    IN  SelectSeq(blocks, Kept)

\* the Map after the first two loops of unloadFarBlocks
UnloadFar(bm) ==
    LET Near(b) == ~(Distance(b, bm.currentBlockX, bm.currentBlockY) > UNLOAD_DISTANCE)
    IN  SelectSeq(bm.blocks, Near)

UnloadFarBlocks(bm) ==
    LET blocks == UnloadFar(bm)
    IN  [bm EXCEPT !.blocks = IF Len(blocks) > MAX_CACHED
                              THEN EvictOldestBlocks(blocks)
                              ELSE blocks]

UpdateCamera(bm, worldX, worldY) ==
    LET to == WorldToBlockCoords(worldX, worldY)
    IN  IF to.blockX # bm.currentBlockX \/ to.blockY # bm.currentBlockY
        THEN UnloadFarBlocks([bm EXCEPT !.currentBlockX = to.blockX,
                                        !.currentBlockY = to.blockY])
        ELSE bm

\* the loops over the required blocks of drawWorld and of the mousemove
\* handler: getOrCreateBlock on each in turn
RECURSIVE GetOrCreateAll(_, _, _, _)
GetOrCreateAll(bm, required, i, now) ==
    IF i > Len(required) THEN bm
    ELSE GetOrCreateAll(GetOrCreateBlock(bm, required[i].blockX,
                                         required[i].blockY, now),
                        required, i + 1, now)

\* the blocks under the canvas when the camera is at (x, y)
Visible(camera) ==
    GetRequiredBlocks(camera.x + CanvasWidth \div 2, camera.y + CanvasHeight \div 2,
                      CanvasWidth, CanvasHeight)

DrawWorld(bm, camera, now) == GetOrCreateAll(bm, Visible(camera), 1, now)

\* history: nothing unloaded yet
NoUnload == [called |-> FALSE]

\* history of one updateCamera: the Map before the call, after the far
\* blocks were deleted and when unloadFarBlocks returned
UnloadRecord(bm, worldX, worldY) ==
    LET to == WorldToBlockCoords(worldX, worldY)
        moved == [bm EXCEPT !.currentBlockX = to.blockX, !.currentBlockY = to.blockY]
    IN  [called |-> TRUE,
         unloaded |-> to.blockX # bm.currentBlockX \/ to.blockY # bm.currentBlockY,
         currentBlockX |-> to.blockX,
         currentBlockY |-> to.blockY,
         before |-> bm.blocks,
         near |-> UnloadFar(moved),
         after |-> UpdateCamera(bm, worldX, worldY).blocks]

\* startInfiniteMap, once the first block is loaded and animate() runs
NewInfiniteMap ==
    [phase |-> "running",
     blockManager |-> NewBlockManager,
     camera |-> [x |-> 0, y |-> 0],
     isDragging |-> FALSE,
     now |-> 0,
     moves |-> 0,
     unload |-> NoUnload]

\* the camera positions of the model: in every block the corner, where the
\* canvas lies within the block, and the far corner, where it reaches into
\* the next blocks
CameraXs == {bx * WIDTH + o : bx \in (0 - MaxBlockX)..MaxBlockX, o \in {0, WIDTH - 1}}
CameraYs == {0, HEIGHT - 1}

\* animate(): updateCamera, then drawWorld
Animate ==
    /\ infiniteMap.phase = "running"
    /\ LET m == infiniteMap
           bm == UpdateCamera(m.blockManager, m.camera.x, m.camera.y)
       IN  infiniteMap' =
               [m EXCEPT !.blockManager = DrawWorld(bm, m.camera, m.now),
                         !.unload = UnloadRecord(m.blockManager, m.camera.x, m.camera.y)]
    /\ UNCHANGED <<state, worker, initPromise, nextWorker, wk, calls, microtasks,
                   taskOpen, fsmLog, droplet, hydro, drag, moistureMap, perlin>>

InfiniteMouseDown ==
    /\ infiniteMap.phase = "running"
    /\ infiniteMap' = [infiniteMap EXCEPT !.isDragging = TRUE, !.unload = NoUnload]
    /\ UNCHANGED <<state, worker, initPromise, nextWorker, wk, calls, microtasks,
                   taskOpen, fsmLog, droplet, hydro, drag, moistureMap, perlin>>

\* e.clientX - lastX of two events on the canvas is no more than its size
Within(delta, size) == 0 - size <= delta /\ delta <= size

\* mousemove while dragging: the camera moves by the mouse's way and the
\* blocks under the canvas are fetched
InfiniteMouseMove ==
    /\ infiniteMap.phase = "running"
    /\ infiniteMap.isDragging
    /\ infiniteMap.moves < MaxMoves
    /\ \E x \in CameraXs, y \in CameraYs :
        LET m == infiniteMap
            camera == [x |-> x, y |-> y]
        IN  /\ Within(m.camera.x - x, CanvasWidth)
            /\ Within(m.camera.y - y, CanvasHeight)
            /\ infiniteMap' =
                [m EXCEPT !.camera = camera,
                          !.moves = @ + 1,
                          !.unload = NoUnload,
                          !.blockManager =
                              GetOrCreateAll(m.blockManager, Visible(camera), 1, m.now)]
    /\ UNCHANGED <<state, worker, initPromise, nextWorker, wk, calls, microtasks,
                   taskOpen, fsmLog, droplet, hydro, drag, moistureMap, perlin>>

\* mouseup, and mouseleave, whose handler does the same
InfiniteMouseUp ==
    /\ infiniteMap.phase = "running"
    /\ infiniteMap.isDragging
    /\ infiniteMap' = [infiniteMap EXCEPT !.isDragging = FALSE, !.unload = NoUnload]
    /\ UNCHANGED <<state, worker, initPromise, nextWorker, wk, calls, microtasks,
                   taskOpen, fsmLog, droplet, hydro, drag, moistureMap, perlin>>

\* Date.now() moves on
ClockTick ==
    /\ infiniteMap.phase = "running"
    /\ infiniteMap.now < MaxTime
    /\ infiniteMap' = [infiniteMap EXCEPT !.now = @ + 1, !.unload = NoUnload]
    /\ UNCHANGED <<state, worker, initPromise, nextWorker, wk, calls, microtasks,
                   taskOpen, fsmLog, droplet, hydro, drag, moistureMap, perlin>>

\* the system clock, which Date.now() reads, is set back
ClockSetBack ==
    /\ infiniteMap.phase = "running"
    /\ infiniteMap.now > 0
    /\ infiniteMap' = [infiniteMap EXCEPT !.now = @ - 1, !.unload = NoUnload]
    /\ UNCHANGED <<state, worker, initPromise, nextWorker, wk, calls, microtasks,
                   taskOpen, fsmLog, droplet, hydro, drag, moistureMap, perlin>>

----------------------------------------------------------------------------
(* setupMapDragging and debounce (ui_controller.js): the closure's          *)
(* variables, the browser's pending timeouts and animation frames, the      *)
(* mousemove handlers suspended at their `await import` (each with the      *)
(* number of drags ended before its event), and the preview                 *)
(* callbacks suspended at `await generatePreview()`.  Handles are numbered  *)
(* from 1; 0 is null.                                                       *)

\* debounce(func, wait) and the closure of setupMapDragging as they are
\* when setupMapDragging returns
NewDrag ==
    [phase |-> "ready",
     isDragging |-> FALSE,
     rafId |-> 0,
     pendingUpdate |-> FALSE,
     timeout |-> 0,
     timers |-> {},
     frames |-> {},
     nextHandle |-> 1,
     moving |-> <<>>,
     previewing |-> 0,
     dragsEnded |-> 0,
     atMouseDown |-> {},
     fired |-> {},
     last |-> [event |-> "none"]]

\* clearTimeout(id), cancelAnimationFrame(id): a handle that is not
\* pending, or null, is ignored
Clear(pending, id) == pending \ {id}

\* executedFunction.cancel that clears nothing
DebounceCancelNothing(d) == d

\* executedFunction.cancel()
DebounceCancel(d) ==
    IF d.timeout # 0
    THEN [d EXCEPT !.timers = Clear(@, d.timeout), !.timeout = 0]
    ELSE d

\* executedFunction(): the timeout of the call before is cleared and a new
\* one is set
DebounceCall(d) ==
    [d EXCEPT !.timers = Clear(@, d.timeout) \cup {d.nextHandle},
              !.timeout = d.nextHandle,
              !.nextHandle = @ + 1]

\* later(), the callback of the timeout `id`: func() is the full generation
DebounceLater(d, id) ==
    [d EXCEPT !.timers = Clear(Clear(@, id), d.timeout),
              !.timeout = 0,
              !.fired = @ \cup {id}]

SchedulePreviewUpdate(d) ==
    IF d.pendingUpdate THEN d
    ELSE [d EXCEPT !.pendingUpdate = TRUE,
                   !.rafId = d.nextHandle,
                   !.frames = @ \cup {d.nextHandle},
                   !.nextHandle = @ + 1]

\* the body of the mouseup and of the mouseleave handler
EndDrag(d) ==
    IF d.isDragging
    THEN LET stopped == [d EXCEPT !.isDragging = FALSE,
                                  !.frames = IF d.rafId # 0 THEN Clear(@, d.rafId) ELSE @,
                                  !.rafId = 0,
                                  !.dragsEnded = Min(@ + 1, MaxDrags)]
         IN  DebounceCall(stopped)
    ELSE d

\* mousedown: a drag begins and the pending full generation is cancelled
DragMouseDown ==
    /\ drag.phase = "ready"
    /\ drag' = [DebounceCancel([drag EXCEPT !.isDragging = TRUE])
                   EXCEPT !.atMouseDown = @ \cup drag.timers,
                          !.last = [event |-> "mousedown"]]
    /\ UNCHANGED <<state, worker, initPromise, nextWorker, wk, calls, microtasks,
                   taskOpen, fsmLog, droplet, hydro, infiniteMap, moistureMap, perlin>>

\* mousemove while dragging, up to its `await import('./config.js')`
DragMouseMove ==
    /\ drag.phase = "ready"
    /\ drag.isDragging
    /\ Len(drag.moving) < MaxMoving
    /\ drag' = [drag EXCEPT !.moving = Append(@, drag.dragsEnded),
                            !.last = [event |-> "mousemove"]]
    /\ UNCHANGED <<state, worker, initPromise, nextWorker, wk, calls, microtasks,
                   taskOpen, fsmLog, droplet, hydro, infiniteMap, moistureMap, perlin>>

\* the rest of a mousemove handler: the offsets change and
\* schedulePreviewUpdate() is called
DragMoveContinue ==
    /\ drag.phase = "ready"
    /\ drag.moving # <<>>
    /\ drag.pendingUpdate \/ drag.nextHandle <= MaxHandles
    /\ drag' = [SchedulePreviewUpdate([drag EXCEPT !.moving = Tail(@)])
                   EXCEPT !.last = [event |-> "moved",
                                    inDrag |-> drag.isDragging
                                               /\ Head(drag.moving) = drag.dragsEnded,
                                    dragsEnded |-> drag.dragsEnded]]
    /\ UNCHANGED <<state, worker, initPromise, nextWorker, wk, calls, microtasks,
                   taskOpen, fsmLog, droplet, hydro, infiniteMap, moistureMap, perlin>>

\* the browser runs the callback of a pending animation frame, up to
\* `await generatePreview()`
DragFrame ==
    /\ drag.phase = "ready"
    /\ \E id \in drag.frames :
        drag' = [drag EXCEPT !.frames = @ \ {id},
                             !.previewing = @ + 1,
                             !.last = [event |-> "frame"]]
    /\ UNCHANGED <<state, worker, initPromise, nextWorker, wk, calls, microtasks,
                   taskOpen, fsmLog, droplet, hydro, infiniteMap, moistureMap, perlin>>

\* generatePreview() has settled: the `finally` of the frame callback
DragPreviewDone ==
    /\ drag.phase = "ready"
    /\ drag.previewing > 0
    /\ drag' = [drag EXCEPT !.previewing = @ - 1,
                            !.pendingUpdate = FALSE,
                            !.last = [event |-> "preview"]]
    /\ UNCHANGED <<state, worker, initPromise, nextWorker, wk, calls, microtasks,
                   taskOpen, fsmLog, droplet, hydro, infiniteMap, moistureMap, perlin>>

DragMouseUp ==
    /\ drag.phase = "ready"
    /\ drag.isDragging
    /\ drag.nextHandle <= MaxHandles
    /\ drag' = [EndDrag(drag) EXCEPT !.last = [event |-> "mouseup"]]
    /\ UNCHANGED <<state, worker, initPromise, nextWorker, wk, calls, microtasks,
                   taskOpen, fsmLog, droplet, hydro, infiniteMap, moistureMap, perlin>>

DragMouseLeave ==
    /\ drag.phase = "ready"
    /\ drag.isDragging
    /\ drag.nextHandle <= MaxHandles
    /\ drag' = [EndDrag(drag) EXCEPT !.last = [event |-> "mouseleave"]]
    /\ UNCHANGED <<state, worker, initPromise, nextWorker, wk, calls, microtasks,
                   taskOpen, fsmLog, droplet, hydro, infiniteMap, moistureMap, perlin>>

\* DRAG_DEBOUNCE_DELAY has passed for a pending timeout: later() runs
DragTimeout ==
    /\ drag.phase = "ready"
    /\ \E id \in drag.timers :
        drag' = [DebounceLater(drag, id) EXCEPT !.last = [event |-> "timeout"]]
    /\ UNCHANGED <<state, worker, initPromise, nextWorker, wk, calls, microtasks,
                   taskOpen, fsmLog, droplet, hydro, infiniteMap, moistureMap, perlin>>

----------------------------------------------------------------------------
(* The hydrology feedback on moisture (ui.js): applyHydrologyToMoisture      *)
(* and applyHydrologyToMoistureAdvanced on mapData.  Moisture and the        *)
(* bonuses are fixed-point numbers like the heights; flux counts visits.     *)

RECURSIVE SumOver(_, _)
SumOver(f, S) ==
    IF S = {} THEN 0
    ELSE LET x == CHOOSE x \in S : TRUE
         IN  f[x] + SumOver(f, S \ {x})

Max(a, b) == IF a > b THEN a ELSE b

\* Math.sqrt(n), in hundredths
Sqrt(n) ==
    LET whole == CHOOSE w \in 0..n : w * w <= n /\ (w + 1) * (w + 1) > n
        tenths == CHOOSE t \in (10 * whole)..(10 * whole + 9) :
                      t * t <= n * 100 /\ (t + 1) * (t + 1) > n * 100
    IN  100 * (CHOOSE r \in (10 * tenths)..(10 * tenths + 9) :
                  r * r <= n * Unit /\ (r + 1) * (r + 1) > n * Unit)

\* the cells of a raster and their coordinates
Pixels == 1..(MapWidth * MapHeight)
PixelX(i) == (i - 1) % MapWidth
PixelY(i) == (i - 1) \div MapWidth
InMap(nx, ny) == nx >= 0 /\ nx < MapWidth /\ ny >= 0 /\ ny < MapHeight
PixelAt(nx, ny) == ny * MapWidth + nx + 1

\* the pass that does not reset moisture
ResetNothing(md) == md

\* mapData.moisture.set(mapData.baseMoisture)
ResetMoisture(md) == [md EXCEPT !.moisture = md.baseMoisture]

\* Math.min(MAX_MOISTURE_BONUS, flux * strength * FLUX_TO_MOISTURE_COEFF)
MainBonus(flux, strength) ==
    Min(MAX_MOISTURE_BONUS, (flux * strength * FLUX_TO_MOISTURE_COEFF) \div Unit)

\* Step 1 of applyHydrologyToMoisture
MoistureBonus(md, strength, fluxThreshold) ==
    [i \in Pixels |->
        IF md.flux[i] >= fluxThreshold THEN MainBonus(md.flux[i], strength * Unit) ELSE 0]

\* Step 2: the 3 x 3 kernel over the neighbours that lie in the map
GaussianSmooth(moistureBonus) ==
    [i \in Pixels |->
        LET window == {k \in 0..8 : InMap(PixelX(i) + (k % 3) - 1,
                                          PixelY(i) + (k \div 3) - 1)}
            term == [k \in window |->
                        (moistureBonus[PixelAt(PixelX(i) + (k % 3) - 1,
                                               PixelY(i) + (k \div 3) - 1)]
                         * GAUSSIAN_KERNEL_3X3[k + 1]) \div Unit]
        IN  SumOver(term, window)]

\* Step 3, and the last loop of the advanced pass
AddSmoothed(md, smoothed) ==
    [md EXCEPT !.moisture =
        [i \in Pixels |->
            IF smoothed[i] > MOISTURE_INCREMENT_EPSILON
            THEN Min(Unit, md.moisture[i] + smoothed[i])
            ELSE md.moisture[i]]]

ApplyHydrologyToMoisture(md, strength, fluxThreshold) ==
    AddSmoothed(ResetMoisture(md),
                GaussianSmooth(MoistureBonus(md, strength, fluxThreshold)))

\* what the river cell `from` adds to the cell i in the advanced pass
SpreadBonus(md, from, i, strength, spreadRadius) ==
    LET mainBonus == MainBonus(md.flux[from], strength * Unit)
        maxSpread == spreadRadius + 1
        dx == PixelX(i) - PixelX(from)
        dy == PixelY(i) - PixelY(from)
        distance == Sqrt(dx * dx + dy * dy)
        falloff == Max(0, Unit - distance \div (maxSpread + 1))
    IN  IF i = from THEN mainBonus
        ELSE IF /\ dx >= 0 - maxSpread /\ dx <= maxSpread
                /\ dy >= 0 - maxSpread /\ dy <= maxSpread
                /\ md.height[i] > SeaLevel
        THEN (((mainBonus * falloff) \div Unit) * SPREAD_BONUS_DECAY) \div Unit
        ELSE 0

AdvancedBonus(md, strength, spreadRadius, fluxThreshold) ==
    [i \in Pixels |->
        LET rivers == {from \in Pixels : md.flux[from] >= fluxThreshold}
            term == [from \in rivers |-> SpreadBonus(md, from, i, strength, spreadRadius)]
        IN  SumOver(term, rivers)]

\* the weighted mean of a cell and its 4 neighbours that lie in the map
CrossSmooth(moistureBonus) ==
    [i \in Pixels |->
        LET around == {n \in Pixels :
                          \/ PixelX(n) = PixelX(i) /\ PixelY(n) - PixelY(i) \in {-1, 1}
                          \/ PixelY(n) = PixelY(i) /\ PixelX(n) - PixelX(i) \in {-1, 1}}
            term == [n \in around |-> moistureBonus[n] * SMOOTH_NEIGHBOR_WEIGHT]
            sum == moistureBonus[i] * SMOOTH_CENTER_WEIGHT + SumOver(term, around)
            count == SMOOTH_CENTER_WEIGHT + Cardinality(around) * SMOOTH_NEIGHBOR_WEIGHT
        IN  sum \div count]

ApplyHydrologyToMoistureAdvanced(md, strength, spreadRadius, fluxThreshold) ==
    AddSmoothed(ResetMoisture(md),
                CrossSmooth(AdvancedBonus(md, strength, spreadRadius, fluxThreshold)))

\* the moisture rasters generateTerrain may leave, the flux rasters a
\* river generation may leave, and the arguments of the passes
DryRaster == [i \in Pixels |-> 1000 * i]
WetRaster == [i \in Pixels |-> Unit - 100 * i]
MoistureRasters == {DryRaster, WetRaster}
BrookFlux == [i \in Pixels |-> IF i = 1 THEN 3 ELSE 0]
RiverFlux == [i \in Pixels |-> IF i = 1 THEN 2 ELSE 40 * i]
FluxRasters == {BrookFlux, RiverFlux}
Strengths == {1, 2}
FluxThresholds == {3, 50}
SpreadRadii == {1, 2}

\* mapData when generateTerrain has returned; `generated` keeps the
\* moisture of the generation
NewMoistureMap(moisture, height, flux) ==
    [phase |-> "generated",
     baseMoisture |-> moisture,
     moisture |-> moisture,
     height |-> height,
     flux |-> flux,
     generated |-> moisture,
     passes |-> <<>>]

\* history: the pass made and what it left, after the pass before it
Passed(md, pass) ==
    [md EXCEPT !.passes =
        (IF @ = <<>> THEN <<>> ELSE <<@[Len(@)]>>)
            \o <<[pass |-> pass, flux |-> md.flux, moisture |-> md.moisture]>>]

HydrologyPass ==
    /\ moistureMap.phase = "generated"
    /\ \E strength \in Strengths, fluxThreshold \in FluxThresholds :
        moistureMap' =
            Passed(ApplyHydrologyToMoisture(moistureMap, strength, fluxThreshold),
                   <<"simple", strength, fluxThreshold>>)
    /\ UNCHANGED <<state, worker, initPromise, nextWorker, wk, calls, microtasks,
                   taskOpen, fsmLog, droplet, hydro, infiniteMap, drag, perlin>>

HydrologyPassAdvanced ==
    /\ moistureMap.phase = "generated"
    /\ \E strength \in Strengths, spreadRadius \in SpreadRadii,
          fluxThreshold \in FluxThresholds :
        moistureMap' =
            Passed(ApplyHydrologyToMoistureAdvanced(moistureMap, strength,
                                                    spreadRadius, fluxThreshold),
                   <<"advanced", strength, spreadRadius, fluxThreshold>>)
    /\ UNCHANGED <<state, worker, initPromise, nextWorker, wk, calls, microtasks,
                   taskOpen, fsmLog, droplet, hydro, infiniteMap, drag, perlin>>

\* a river generation leaves another flux raster
RiversRegenerated ==
    /\ moistureMap.phase = "generated"
    /\ \E flux \in FluxRasters :
        /\ flux # moistureMap.flux
        /\ moistureMap' = [moistureMap EXCEPT !.flux = flux]
    /\ UNCHANGED <<state, worker, initPromise, nextWorker, wk, calls, microtasks,
                   taskOpen, fsmLog, droplet, hydro, infiniteMap, drag, perlin>>

----------------------------------------------------------------------------
(* noise.js: the permutation table of PerlinNoise, get and fbm.  The table *)
(* has PERMUTATION_SIZE entries, stored twice; coordinates and values are  *)
(* fixed-point numbers.                                                    *)

\* a * b of two fixed-point numbers
Mul(a, b) == (a * b) \div Unit

\* Math.floor(x) and x - Math.floor(x)
Floor(x) == x \div Unit
Fraction(x) == x % Unit

\* this.perm, Ken Perlin's table: a permutation of 0..PERMUTATION_SIZE - 1
\* that begins with 151
Perm == [i \in 1..PERMUTATION_SIZE |-> (151 * i) % PERMUTATION_SIZE]

\* [shuffled[i], shuffled[j]] = [shuffled[j], shuffled[i]], for indices from 0
Swap(shuffled, i, j) ==
    [shuffled EXCEPT ![i + 1] = shuffled[j + 1], ![j + 1] = shuffled[i + 1]]

\* the Fisher-Yates loop of init, from i down to 1
RECURSIVE FisherYates(_, _, _)
FisherYates(shuffled, shuffleRng, i) ==
    IF i <= 0 THEN shuffled
    ELSE LET r == NextRandom(shuffleRng)
         IN  FisherYates(Swap(shuffled, i, RandomIndex(r.out, i + 1)), r.rng, i - 1)

\* a shuffle that draws from the generator noise.random() draws from
SharedRng(n, seed) == n.rng

\* const shuffleRng = this.mulberry32(seed)
ShuffleRng(n, seed) == Mulberry32(seed)

\* init(seed): the generator of random() and the table, filled twice
InitNoise(n, seed) ==
    LET shuffled == FisherYates(Perm, ShuffleRng(n, seed), PERMUTATION_SIZE - 1)
    IN  [n EXCEPT !.rng = NoiseInit(seed),
                  !.p = shuffled \o shuffled]

\* t * t * t * (t * (t * 6 - 15) + 10)
Fade(t) == Mul(Mul(Mul(t, t), t), Mul(t, 6 * t - 15 * Unit) + 10 * Unit)

Lerp(t, a, b) == a + Mul(t, b - a)

\* grad(hash, x, y): the low 4 bits of hash choose the signs and the axes
Grad(hash, x, y) ==
    LET h == hash % 16
        u == IF h < 8 THEN x ELSE y
        v == IF h < 4 THEN y ELSE IF h \in {12, 14} THEN x ELSE 0
    IN  (IF h % 2 = 0 THEN u ELSE 0 - u) + (IF (h \div 2) % 2 = 0 THEN v ELSE 0 - v)

\* get(x, y) on the table p, whose entry k is p[k + 1]
Get(p, x, y) ==
    LET X == Floor(x) % PERMUTATION_SIZE
        Y == Floor(y) % PERMUTATION_SIZE
        fx == Fraction(x)
        fy == Fraction(y)
        A == p[X + 1] + Y
        B == p[X + 2] + Y
    IN  Lerp(Fade(fy),
             Lerp(Fade(fx), Grad(p[A + 1], fx, fy), Grad(p[B + 1], fx - Unit, fy)),
             Lerp(Fade(fx), Grad(p[A + 2], fx, fy - Unit),
                            Grad(p[B + 2], fx - Unit, fy - Unit)))

\* the loop of fbm from octave i on: total and maxValue
RECURSIVE Octaves(_, _, _, _, _, _, _, _)
Octaves(p, x, y, scale, i, octaves, amplitude, frequency) ==
    IF i >= octaves THEN [total |-> 0, maxValue |-> 0]
    ELSE LET rest == Octaves(p, x, y, scale, i + 1, octaves,
                             amplitude \div 2, frequency * 2)
         IN  [total |-> Mul(Get(p, ((x * Unit) \div scale) * frequency,
                                   ((y * Unit) \div scale) * frequency), amplitude)
                        + rest.total,
              maxValue |-> amplitude + rest.maxValue]

\* fbm(x, y, octaves, scale, 0)
Fbm(p, x, y, octaves, scale) ==
    LET sum == Octaves(p, x, y, scale, 0, octaves, Unit, 1)
    IN  (sum.total * Unit) \div sum.maxValue + Unit \div 2

\* the seeds given to init and the arguments given to fbm
NoiseSeeds == 0..MaxSeed
SamplePoints == {<<1, 2>>, <<5, 4>>}
Scales == {3}

\* const noise = new PerlinNoise(): the constructor calls init(0).  tables
\* keeps the table of the first init of each seed, fbms the last two calls
\* of fbm and what they returned, earlier and drawn the seed before the
\* last init and the numbers random() had returned under it.
NewPerlin ==
    LET n == InitNoise([phase |-> "ready", rng |-> 0, p |-> <<>>], 0)
    IN  [phase |-> "ready",
         rng |-> n.rng,
         p |-> n.p,
         seed |-> 0,
         seedings |-> 0,
         consumed |-> 0,
         earlier |-> 0,
         drawn |-> 0,
         tables |-> [s \in NoiseSeeds |-> IF s = 0 THEN n.p ELSE <<>>],
         fbms |-> <<>>]

\* noise.init(seed)
NoiseSeed ==
    /\ perlin.phase = "ready"
    /\ perlin.seedings < MaxSeedings
    /\ \E seed \in NoiseSeeds :
        LET n == InitNoise(perlin, seed)
        IN  perlin' = [n EXCEPT !.seed = seed,
                                !.seedings = @ + 1,
                                !.consumed = 0,
                                !.earlier = perlin.seed,
                                !.drawn = perlin.consumed,
                                !.tables[seed] = IF @ = <<>> THEN n.p ELSE @]
    /\ UNCHANGED <<state, worker, initPromise, nextWorker, wk, calls, microtasks,
                   taskOpen, fsmLog, droplet, hydro, infiniteMap, drag, moistureMap>>

\* noise.random()
NoiseRandom ==
    /\ perlin.phase = "ready"
    /\ perlin.consumed < MaxConsumed
    /\ perlin' = [perlin EXCEPT !.rng = NextRandom(@).rng,
                                !.consumed = @ + 1]
    /\ UNCHANGED <<state, worker, initPromise, nextWorker, wk, calls, microtasks,
                   taskOpen, fsmLog, droplet, hydro, infiniteMap, drag, moistureMap>>

\* noise.fbm(x, y, octaves, scale, 0)
NoiseFbm ==
    /\ perlin.phase = "ready"
    /\ \E point \in SamplePoints, octaves \in 1..MaxOctaves, scale \in Scales :
        perlin' = [perlin EXCEPT !.fbms =
            (IF @ = <<>> THEN <<>> ELSE <<@[Len(@)]>>)
                \o <<[seed |-> perlin.seed,
                      seedings |-> perlin.seedings,
                      args |-> <<point[1], point[2], octaves, scale>>,
                      value |-> Fbm(perlin.p, point[1], point[2], octaves, scale)]>>]
    /\ UNCHANGED <<state, worker, initPromise, nextWorker, wk, calls, microtasks,
                   taskOpen, fsmLog, droplet, hydro, infiniteMap, drag, moistureMap>>

----------------------------------------------------------------------------

vars == <<state, worker, initPromise, nextWorker, wk, calls, microtasks, taskOpen,
          fsmLog, droplet, hydro, infiniteMap, drag, moistureMap, perlin>>

Init ==
    /\ state = "IDLE"
    /\ worker = 0
    /\ initPromise = 0
    /\ nextWorker = 1
    /\ wk = [w \in WorkerIds |-> NoWorkerObject]
    /\ calls = [c \in CallIds |-> NewCall]
    /\ microtasks = <<>>
    /\ taskOpen = FALSE
    /\ fsmLog = <<>>
    /\ droplet = NoDroplet
    /\ hydro = NoHydro
    /\ infiniteMap = NoInfiniteMap
    /\ drag = NoDrag
    /\ moistureMap = NoMoistureMap
    /\ perlin = NoPerlin

Next ==
    \/ \E c \in DOMAIN calls : CallGenerateRivers(c, DropletCounts)
    \/ \E c \in DOMAIN calls : ContinueAfterInit(c)
    \/ \E c \in DOMAIN calls : ContinueGenDone(c)
    \/ \E c \in DOMAIN calls : ContinueCatch(c)
    \/ \E c \in DOMAIN calls : FallbackTimer(c)
    \/ \E w \in WorkerIds : Deliver(w)
    \/ \E w \in WorkerIds : WorkerStep(w)
    \/ \E w \in WorkerIds : WorkerScriptError(w)

Spec == Init /\ [][Next]_vars

----------------------------------------------------------------------------
(* SpecBurst: TestBot.testConcurrency, which issues BurstSize calls of     *)
(* generateRivers(BurstDroplets) from one loop, on a fresh controller      *)

InitBurst ==
    /\ state = "IDLE"
    /\ worker = 0
    /\ initPromise = 0
    /\ nextWorker = 1
    /\ wk = [w \in WorkerIds |-> NoWorkerObject]
    /\ calls = [c \in 1..BurstSize |-> NewCall]
    /\ microtasks = <<>>
    /\ taskOpen = FALSE
    /\ fsmLog = <<>>
    /\ droplet = NoDroplet
    /\ hydro = NoHydro
    /\ infiniteMap = NoInfiniteMap
    /\ drag = NoDrag
    /\ moistureMap = NoMoistureMap
    /\ perlin = NoPerlin

\* the loop body: `generateRivers(1000)`; every call but the first comes
\* from the loop that issued the one before
BurstCall(c) ==
    /\ c = 1 \/ taskOpen
    /\ CallGenerateRivers(c, {BurstDroplets})

NextBurst ==
    \/ \E c \in DOMAIN calls : BurstCall(c)
    \/ \E c \in DOMAIN calls : ContinueAfterInit(c)
    \/ \E c \in DOMAIN calls : ContinueGenDone(c)
    \/ \E c \in DOMAIN calls : ContinueCatch(c)
    \/ \E c \in DOMAIN calls : FallbackTimer(c)
    \/ \E w \in WorkerIds : Deliver(w)
    \/ \E w \in WorkerIds : WorkerStep(w)
    \/ \E w \in WorkerIds : WorkerScriptError(w)

SpecBurst == InitBurst /\ [][NextBurst]_vars

----------------------------------------------------------------------------
(* SpecController: the class TerrainWorkerController on its own, its three *)
(* methods called in any order by clients that only await what they get    *)

\* a client calls init() and awaits the result
DirectInit(c) ==
    /\ calls[c].pc = "new"
    /\ \A d \in DOMAIN calls : d < c => calls[d].pc # "new"
    /\ microtasks = <<>> \/ taskOpen
    /\ taskOpen' = TRUE
    /\ UNCHANGED <<droplet, hydro, pageVars>>
    /\ \E canCreate \in BOOLEAN, height \in HeightSamples :
        AwaitInit(c, [calls[c] EXCEPT !.op = "init"], canCreate, height)

\* a client calls generateRivers(numDroplets) and awaits the result
DirectGenerate(c) ==
    /\ calls[c].pc = "new"
    /\ \A d \in DOMAIN calls : d < c => calls[d].pc # "new"
    /\ microtasks = <<>> \/ taskOpen
    /\ taskOpen' = TRUE
    /\ UNCHANGED <<droplet, hydro, pageVars>>
    /\ \E n \in {k \in DropletCounts : k > 0} :
        LET r == ControllerGenerateRivers(Controller, c, n)
            started == [calls[c] EXCEPT !.op = "generate", !.n = n]
        IN /\ SetController(r.k)
           /\ IF r.out = "pending"
              THEN /\ calls' = [calls EXCEPT ![c] = [started EXCEPT !.pc = "awaitGen"]]
                   /\ UNCHANGED microtasks
              ELSE /\ calls' = [calls EXCEPT ![c] = [started EXCEPT !.pc = "catch",
                                                                   !.err = r.out]]
                   /\ microtasks' = Append(microtasks, c)

\* a client calls reset()
DirectReset ==
    /\ microtasks = <<>> \/ taskOpen
    /\ taskOpen' = TRUE
    /\ UNCHANGED <<droplet, hydro, pageVars>>
    /\ SetController(Reset(Controller))
    /\ UNCHANGED <<calls, microtasks>>

\* the client's await ends
Observe(c) ==
    /\ microtasks # <<>> /\ Head(microtasks) = c
    /\ taskOpen' = FALSE
    /\ UNCHANGED <<droplet, hydro, pageVars>>
    /\ calls' = [calls EXCEPT ![c].pc = IF @ = "catch" THEN "rejected" ELSE "resolved"]
    /\ microtasks' = Tail(microtasks)
    /\ SameController

NextController ==
    \/ \E c \in DOMAIN calls : DirectInit(c)
    \/ \E c \in DOMAIN calls : DirectGenerate(c)
    \/ DirectReset
    \/ \E c \in DOMAIN calls : Observe(c)
    \/ \E w \in WorkerIds : Deliver(w)
    \/ \E w \in WorkerIds : WorkerStep(w)
    \/ \E w \in WorkerIds : WorkerScriptError(w)

SpecController == Init /\ [][NextController]_vars

----------------------------------------------------------------------------
(* Properties of the worker life cycle *)

States == {"IDLE", "INITIALIZING", "READY", "GENERATING", "ERROR"}

Alive == {w \in WorkerIds : wk[w].status = "alive"}

\* call c runs its catch block in this step
Catches(c) ==
    /\ microtasks # <<>> /\ Head(microtasks) = c
    /\ calls[c].op = "public"
    /\ calls[c].pc = "catch"
    /\ calls'[c] # calls[c]

\* C1: while the controller is GENERATING a further generateRivers of the
\* controller is rejected with the concurrency error and changes nothing:
\* the state, the worker and its handlers, the commands sent and the
\* pending promise are as before, and no other call is touched.
C1_GeneratingRejects ==
    [][\A c \in DOMAIN calls :
          (state = "GENERATING" /\ calls[c].op = "none" /\ calls'[c].op = "generate")
          => /\ calls'[c].pc = "catch"
             /\ calls'[c].err = "concurrency"
             /\ UNCHANGED ctlVars
             /\ \A d \in DOMAIN calls \ {c} : calls'[d] = calls[d]]_vars

C1_Witness ==
    /\ state = "GENERATING"
    /\ \E c, d \in DOMAIN calls :
        /\ calls[c].op = "generate" /\ calls[c].pc = "catch"
        /\ calls[c].err = "concurrency"
        /\ calls[d].op = "generate" /\ calls[d].pc = "awaitGen"
        /\ wk[worker].owner = d

\* the computations running on the main thread's rasters: the fallbacks
\* between two chunks, and the worker generations commanded whose result
\* has not been copied back yet
FallbacksInProgress == {c \in DOMAIN calls : calls[c].pc = "fallbackWait"}
GenerationsInFlight ==
    {w \in WorkerIds : /\ wk[w].status = "alive"
                       /\ wk[w].onmessage = "gen"
                       /\ wk[w].inbox # <<>> \/ wk[w].outbox # <<>>}

Settled(c) == calls[c].pc \in {"resolved", "rejected"}

\* C2: of BurstSize concurrent calls of the public generateRivers exactly
\* one succeeds and the others are rejected with the concurrency error, and
\* there is never more than one generation in flight.
C2_OneOfBurst ==
    /\ Cardinality(FallbacksInProgress) + Cardinality(GenerationsInFlight) <= 1
    /\ (\A c \in DOMAIN calls : Settled(c))
       => /\ Cardinality({c \in DOMAIN calls : calls[c].pc = "resolved"}) = 1
          /\ Cardinality({c \in DOMAIN calls : /\ calls[c].pc = "rejected"
                                                /\ calls[c].err = "concurrency"})
             = BurstSize - 1

\* C3: there are never two hydrology computations in progress on the same
\* rasters: no worker generation together with a fallback, no two
\* fallbacks with their chunks interleaved.
C3_NoOverlap ==
    \/ FallbacksInProgress = {} /\ Cardinality(GenerationsInFlight) <= 1
    \/ GenerationsInFlight = {} /\ Cardinality(FallbacksInProgress) <= 1

\* the transitions of the controller's table
Tabled(t) ==
    \/ t.from = "IDLE" /\ t.to = "INITIALIZING" /\ t.on = "init"
    \/ t.from = "INITIALIZING" /\ t.to = "READY" /\ t.on = "ready"
    \/ t.from = "INITIALIZING" /\ t.to = "ERROR"
       /\ t.on \in {"workerError", "creationFailure"}
    \/ t.from = "READY" /\ t.to = "GENERATING" /\ t.on = "generate"
    \/ t.from = "GENERATING" /\ t.to = "READY" /\ t.on = "complete"
    \/ t.from = "GENERATING" /\ t.to = "ERROR" /\ t.on = "workerError"
    \/ t.from = "ERROR" /\ t.to = "INITIALIZING" /\ t.on = "init"
    \/ t.to = "IDLE" /\ t.on = "reset"

\* C4: the controller's state is always one of the five, starts as IDLE,
\* and changes only by a transition of the table.
C4_TabledTransitions ==
    /\ state = "IDLE"
    /\ [](state \in States)
    /\ [][/\ state' # state => fsmLog' # <<>>
          /\ \A i \in DOMAIN fsmLog' : Tabled(fsmLog'[i])]_vars

C4_Witness ==
    /\ Len(fsmLog) = 2
    /\ fsmLog[1] = [from |-> "ERROR", to |-> "IDLE", on |-> "reset"]
    /\ fsmLog[2] = [from |-> "IDLE", to |-> "INITIALIZING", on |-> "init"]
    /\ \E w \in WorkerIds : wk[w].status = "terminated"
    /\ worker # 0

\* C5: on the concurrency error the public generateRivers rejects with that
\* error: the controller is not reset and no fallback is run.
C5_ConcurrencyRethrown ==
    /\ [][\A c \in DOMAIN calls :
             (Catches(c) /\ calls[c].err = "concurrency")
             => /\ calls'[c] = [calls[c] EXCEPT !.pc = "rejected"]
                /\ UNCHANGED ctlVars
                /\ fsmLog' = <<>>]_vars
    /\ [](\A c \in DOMAIN calls :
             calls[c].err = "concurrency"
             => calls[c].pc \in {"catch", "rejected"} /\ calls[c].via = "none")

C5_Witness ==
    \E c \in DOMAIN calls :
        /\ calls[c].op = "public" /\ calls[c].pc = "rejected"
        /\ calls[c].err = "concurrency"
        /\ state = "GENERATING"

\* C6: on any other failure the public generateRivers resets the controller
\* (worker terminated, state IDLE) and runs the fallback, and the call
\* resolves: it is never rejected.
C6_ResetThenFallback ==
    /\ [][\A c \in DOMAIN calls :
             (Catches(c) /\ calls[c].err # "concurrency")
             => /\ state' = "IDLE" /\ worker' = 0 /\ initPromise' = 0
                /\ worker # 0 => wk'[worker].status = "terminated"
                /\ fsmLog' # <<>> /\ fsmLog'[Len(fsmLog')].on = "reset"
                /\ \/ calls'[c].pc = "fallbackWait"
                   \/ calls'[c].pc = "resolved" /\ calls'[c].via = "fallback"]_vars
    /\ [](\A c \in DOMAIN calls :
             calls[c].err \in {"invalidState", "typeError", "creation", "worker"}
             => /\ calls[c].pc \in {"catch", "fallbackWait", "resolved"}
                /\ calls[c].pc = "resolved" => calls[c].via = "fallback")

C6_Witness ==
    /\ state = "IDLE" /\ worker = 0
    /\ \E w \in WorkerIds : wk[w].status = "terminated"
    /\ \E c \in DOMAIN calls :
        /\ calls[c].err = "worker" /\ calls[c].pc = "resolved"
        /\ calls[c].via = "fallback"

\* C7: reset() called in any state leaves the controller IDLE with its
\* worker (if any) terminated, no worker reference and no pending promise.
C7_Reset ==
    [][(fsmLog' # <<>> /\ fsmLog'[Len(fsmLog')].on = "reset")
       => /\ state' = "IDLE"
          /\ worker' = 0
          /\ initPromise' = 0
          /\ worker # 0 => wk'[worker].status = "terminated"
          /\ \A w \in WorkerIds : wk'[w].status # "alive"]_vars

C7_Witness ==
    /\ fsmLog = <<[from |-> "GENERATING", to |-> "IDLE", on |-> "reset"]>>
    /\ \E w \in WorkerIds : wk[w].status = "terminated" /\ wk[w].onmessage = "gen"
    /\ \E c \in DOMAIN calls : calls[c].pc = "awaitGen"

\* C8: at most one worker is alive at any time, and it is the controller's;
\* an init() during INITIALIZING shares the initialization in progress and
\* an init() in READY or GENERATING creates no worker; the worker left by an
\* ERROR state is terminated before a new one is created.
C8_OneWorker ==
    /\ [](Cardinality(Alive) <= 1 /\ Alive \subseteq {worker})
    /\ [][\A c \in DOMAIN calls :
             (calls[c].op = "none" /\ calls'[c].op \in {"init", "public"}
              /\ calls'[c].n >= 0 /\ calls'[c].via = "none")
             => /\ state = "INITIALIZING"
                   => /\ UNCHANGED ctlVars
                      /\ calls'[c].pc = "awaitInit" => calls'[c].wait = initPromise
                /\ state \in {"READY", "GENERATING"}
                   => UNCHANGED ctlVars /\ calls'[c].pc = "afterInit"
                /\ (state = "ERROR" /\ worker # 0)
                   => wk'[worker].status = "terminated"]_vars

C8_Witness ==
    /\ state = "INITIALIZING"
    /\ Cardinality(Alive) = 1
    /\ \E w \in WorkerIds : wk[w].status = "terminated"
    /\ \E c, d \in DOMAIN calls :
        /\ c # d
        /\ calls[c].pc = "awaitInit" /\ calls[d].pc = "awaitInit"
        /\ calls[c].wait = worker /\ calls[d].wait = worker

\* the worker thread of Worker w handles a generateRivers command in this
\* step
HandlesGeneration(w) ==
    /\ wk[w].status = "alive" /\ wk'[w].status = "alive"
    /\ wk[w].inbox # <<>>
    /\ Head(wk[w].inbox).cmd = "generateRivers"
    /\ wk'[w].inbox = Tail(wk[w].inbox)

\* the messages it posts in this step
PostedNow(w) ==
    SubSeq(wk'[w].outbox, Len(wk[w].outbox) + 1, Len(wk'[w].outbox))

IsTerminal(m) == m.type \in {"complete", "error"}

\* progress messages with strictly increasing completed counts, then one
\* terminal message, then nothing
OneGeneration(ms) ==
    /\ Len(ms) >= 1
    /\ IsTerminal(ms[Len(ms)])
    /\ \A i \in 1..(Len(ms) - 1) : ms[i].type = "progress"
    /\ \A i, j \in 1..(Len(ms) - 1) : i < j => ms[i].completed < ms[j].completed

\* droplet counts around the chunk boundaries
ChunkCases ==
    {1, CHUNK_SIZE - 1, CHUNK_SIZE, CHUNK_SIZE + 1, 2 * CHUNK_SIZE, 2 * CHUNK_SIZE + 1}

\* C9: the progress messages the worker posts for one generateRivers command
\* carry strictly increasing completed counts, and the command gets exactly
\* one terminal message (complete or error), after which nothing is posted
\* for it; the chunk loop's progress messages are strictly increasing for
\* droplet counts on either side of a chunk boundary.
C9_OneTerminalMessage ==
    /\ [][\A w \in WorkerIds : HandlesGeneration(w) => OneGeneration(PostedNow(w))]_vars
    /\ [](\A n \in ChunkCases :
            OneGeneration(ProgressMessages(0, n) \o <<[type |-> "complete"]>>))

C9_Witness ==
    \E w \in WorkerIds :
        /\ wk[w].status = "alive" /\ wk[w].onmessage = "gen"
        /\ wk[w].inbox = <<>>
        /\ Len(wk[w].outbox) = 1
        /\ wk[w].outbox[1].type = "complete"
        /\ wk[w].outbox[1].totalDroplets = 2 * CHUNK_SIZE
        /\ state = "GENERATING"

----------------------------------------------------------------------------
(* SpecDroplet: runs of simulateDroplet, one after another on the same     *)
(* mapData, from any start cell                                            *)

InitDroplet ==
    /\ state = "IDLE"
    /\ worker = 0
    /\ initPromise = 0
    /\ nextWorker = 1
    /\ wk = [w \in WorkerIds |-> NoWorkerObject]
    /\ calls = [c \in CallIds |-> NewCall]
    /\ microtasks = <<>>
    /\ taskOpen = FALSE
    /\ fsmLog = <<>>
    /\ droplet \in {NewDroplet(mode, raster) :
                       mode \in {"worker", "fallback"}, raster \in DropletRasters}
    /\ hydro = NoHydro
    /\ infiniteMap = NoInfiniteMap
    /\ drag = NoDrag
    /\ moistureMap = NoMoistureMap
    /\ perlin = NoPerlin

NextDroplet ==
    \/ StartDroplet
    \/ WorkerDropletStep
    \/ FallbackDropletStep

SpecDroplet == InitDroplet /\ [][NextDroplet]_vars

\* C10: simulateDroplet ends within MAX_DROPLET_ITERATIONS iterations of its
\* loop, whatever the raster and the start cell: on a plateau and on a
\* raster that earlier droplets have eroded as well.
C10_DropletTerminates ==
    droplet.mode # "idle"
    => /\ droplet.iterations <= MAX_DROPLET_ITERATIONS
       /\ droplet.running => droplet.iterations < MAX_DROPLET_ITERATIONS

C10_Witness ==
    /\ droplet.mode = "fallback"
    /\ droplet.runs = MaxDroplets
    /\ ~droplet.running
    /\ droplet.iterations = MAX_DROPLET_ITERATIONS
    /\ droplet.pathLength = MAX_DROPLET_ITERATIONS
    /\ \E i \in DOMAIN LandRaster :
        droplet.mapData["height"].v[i] < LandRaster[i]

----------------------------------------------------------------------------
(* SpecHydro: the page with its terrain generated, then generateTerrain,   *)
(* setSeed and requests of generateRivers in any order, no two requests    *)
(* at once                                                                 *)

InitHydro ==
    /\ state = "IDLE"
    /\ worker = 0
    /\ initPromise = 0
    /\ nextWorker = 1
    /\ wk = [w \in WorkerIds |-> NoWorkerObject]
    /\ calls = [c \in CallIds |-> NewCall]
    /\ microtasks = <<>>
    /\ taskOpen = FALSE
    /\ fsmLog = <<>>
    /\ droplet = NoDroplet
    /\ hydro \in {NewHydro(seed, raster) : seed \in Seeds, raster \in HydroRasters}
    /\ infiniteMap = NoInfiniteMap
    /\ drag = NoDrag
    /\ moistureMap = NoMoistureMap
    /\ perlin = NoPerlin

NextHydro ==
    \/ GenerateTerrain
    \/ SetSeed
    \/ Request

SpecHydro == InitHydro /\ [][NextHydro]_vars

\* the last request served
LastRun == hydro.runs[Len(hydro.runs)]

----------------------------------------------------------------------------
(* Properties of the hydrology requests *)

Served == hydro.phase = "loaded" /\ Len(hydro.runs) > 0

AllZero(raster) == \A i \in DOMAIN raster : raster[i] = 0

\* C11: a request on a height raster with no cell above the sea level ends
\* without an error on the worker path and on the fallback path alike, with
\* flux and lakes all zero and with stats returned whose successfulDroplets
\* is 0.
C11_OceanShortCircuit ==
    (/\ Served
     /\ LastRun.path \in {"worker", "fallback"}
     /\ ~HasLand(LastRun.heightBefore))
    => /\ AllZero(hydro.mapData["flux"].v)
       /\ AllZero(hydro.mapData["lakes"].v)
       /\ LastRun.stats.t = "stats"
       /\ LastRun.stats.successfulDroplets = 0

\* C12: a worker run of n > 0 droplets, when the height raster posted at
\* init has a cell above the sea level, simulates n droplets, each started
\* on a cell above the sea level, and finds land in its scan.
C12_WorkerSimulatesAll ==
    (/\ Served
     /\ LastRun.path = "worker"
     /\ HasLand(LastRun.sent))
    => /\ Len(LastRun.landCoords) > 0
       /\ Len(LastRun.starts) = LastRun.numDroplets
       /\ \A i \in DOMAIN LastRun.starts :
            LastRun.sent[LastRun.starts[i] + 1] > SeaLevel

\* C13: once a request of any droplet count >= 0 has been served, every
\* flux[i] is >= 0 and is the number of visits the droplets of that request
\* made to cell i, whatever the requests before left.
C13_FluxOfThisRun ==
    Served
    => \A i \in DOMAIN LastRun.flux :
          /\ LastRun.flux[i] >= 0
          /\ LastRun.flux[i] = LastRun.visits[i]

----------------------------------------------------------------------------
(* Properties of simulateDroplet, on the iteration last made *)

\* the cell the last iteration began on, and the cells around it inside
\* the map
PrevKey == droplet.prev.y * MapWidth + droplet.prev.x
NeighbourCells ==
    {k \in Cells : /\ k # PrevKey
                   /\ (k % MapWidth) - droplet.prev.x \in {-1, 0, 1}
                   /\ (k \div MapWidth) - droplet.prev.y \in {-1, 0, 1}}

HeightNow(k) == droplet.mapData["height"].v[k + 1]

\* the last iteration raised its cell: it deposited at a local minimum
Deposited ==
    /\ droplet.mode # "idle"
    /\ droplet.prev.taken
    /\ droplet.prev.height.t = "Float32Array"
    /\ HeightNow(PrevKey) > droplet.prev.height.v[PrevKey + 1]

\* the droplet left the cell in the last iteration
Moved == droplet.x # droplet.prev.x \/ droplet.y # droplet.prev.y

\* the cells the last iteration marked as lake
Marked ==
    IF droplet.mode # "idle" /\ droplet.prev.taken
    THEN {k \in Cells : droplet.mapData["lakes"].v[k + 1] = 1
                        /\ droplet.prev.lakes[k + 1] = 0}
    ELSE {}

\* C14: an iteration that deposits at a local minimum and spills to a
\* neighbour marks no lake; a lake is marked only by an iteration that
\* leaves the droplet stopped in its cell.
C14_NoLakeOnSpill ==
    /\ (Deposited /\ Moved) => Marked = {}
    /\ Marked # {} => (~Moved /\ ~droplet.running)

\* C15: after a deposit at a local minimum, whenever the raised height is at
\* least the height of the lowest neighbour inside the map minus
\* OVERFLOW_TOLERANCE, the droplet spills, and to a neighbour of that
\* lowest height.
C15_SpillWithinTolerance ==
    Deposited
    => \A low \in NeighbourCells :
          ((\A k \in NeighbourCells : HeightNow(low) <= HeightNow(k))
           /\ HeightNow(PrevKey) >= HeightNow(low) - OVERFLOW_TOLERANCE)
          => /\ Moved
             /\ HeightNow(droplet.y * MapWidth + droplet.x) = HeightNow(low)

\* C16: a cell is marked as lake only when its height, after the deposit
\* of that iteration if there was one, is above seaLevel + MIN_LAKE_DEPTH.
C16_LakeDepth ==
    \A k \in Marked : HeightNow(k) > SeaLevel + MIN_LAKE_DEPTH

C16_Witness ==
    /\ Deposited
    /\ Marked = {PrevKey}
    /\ ~droplet.running
    /\ \E k \in Cells \ {PrevKey} :
          droplet.mapData["lakes"].v[k + 1] = 0

\* the droplets of a run simulated one after another from the start cells
\* given, on mapData md
RECURSIVE RunFrom(_, _, _)
RunFrom(mode, md, starts) ==
    IF starts = <<>> THEN md
    ELSE RunFrom(mode,
                 SimulateDroplet(BeginDroplet(DropletOn(mode, md),
                                              Head(starts) % MapWidth,
                                              Head(starts) \div MapWidth)).mapData,
                 Tail(starts))

\* the flux and lakes a worker initialised with the raster `height` makes of
\* the droplets started on the cells `starts`
WorkerRunFrom(height, starts) ==
    LET m == InitCommand(height)
        md == HandleInit(NewWorkerThread, m.config, m.data).mapData
        fresh == [md EXCEPT !["flux"] = F32(Zeros(md)), !["lakes"] = F32(Zeros(md))]
    IN RunFrom("worker", fresh, starts)

\* C17: a fallback run leaves in the main thread's mapData the flux, lakes
\* and height that a worker run leaves in the worker's for the same height
\* raster and the same droplet start cells.
C17_FallbackAsWorker ==
    (Served /\ LastRun.path = "fallback")
    => LET w == WorkerRunFrom(LastRun.heightBefore, LastRun.starts)
       IN /\ LastRun.flux = w["flux"].v
          /\ LastRun.lakes = w["lakes"].v
          /\ LastRun.heightAfter = w["height"]

\* C18: whenever a request is served by the fallback, noise.init has run
\* with terrainConfig.seed since the request began, and the generator is in
\* the state that leaves when the fallback draws its first start cell.
C18_ReseedBeforeFallback ==
    (Served /\ LastRun.path = "fallback")
    => /\ LastRun.reseeded
       /\ LastRun.rngBegan = NoiseInit(LastRun.seed)

\* the requests that ran droplets or found no land to run them on
IsRun(i) == hydro.runs[i].path \in {"worker", "fallback"}

\* C19: two runs with the same seed, the same height raster and the same
\* droplet count draw the same start cells and leave the same flux and
\* lakes, whatever ran before them.
C19_SameSeedSameRivers ==
    hydro.phase = "loaded"
    => \A i, j \in DOMAIN hydro.runs :
          (/\ IsRun(i) /\ IsRun(j)
           /\ hydro.runs[i].seed = hydro.runs[j].seed
           /\ hydro.runs[i].heightBefore = hydro.runs[j].heightBefore
           /\ hydro.runs[i].numDroplets = hydro.runs[j].numDroplets)
          => /\ hydro.runs[i].starts = hydro.runs[j].starts
             /\ hydro.runs[i].flux = hydro.runs[j].flux
             /\ hydro.runs[i].lakes = hydro.runs[j].lakes

\* C20: when a run has changed the height raster it worked on and the next
\* run is on the same terrain (no generateTerrain in between), the next run
\* works on the height raster the first one left, be it served by the same
\* worker, by a worker made anew or by the fallback.
C20_ErosionPersists ==
    hydro.phase = "loaded"
    => \A i \in DOMAIN hydro.runs :
          (/\ i + 1 \in DOMAIN hydro.runs
           /\ IsRun(i) /\ IsRun(i + 1)
           /\ hydro.runs[i + 1].sameTerrain
           /\ hydro.runs[i].heightAfter # hydro.runs[i].heightUsed)
          => hydro.runs[i + 1].heightUsed = hydro.runs[i].heightAfter

----------------------------------------------------------------------------
(* SpecBlocks: the infinite map under drags and animation frames *)

InitBlocks ==
    /\ state = "IDLE"
    /\ worker = 0
    /\ initPromise = 0
    /\ nextWorker = 1
    /\ wk = [w \in WorkerIds |-> NoWorkerObject]
    /\ calls = [c \in CallIds |-> NewCall]
    /\ microtasks = <<>>
    /\ taskOpen = FALSE
    /\ fsmLog = <<>>
    /\ droplet = NoDroplet
    /\ hydro = NoHydro
    /\ infiniteMap = NewInfiniteMap
    /\ drag = NoDrag
    /\ moistureMap = NoMoistureMap
    /\ perlin = NoPerlin

NextBlocks ==
    \/ Animate
    \/ InfiniteMouseDown
    \/ InfiniteMouseMove
    \/ InfiniteMouseUp
    \/ ClockTick
    \/ ClockSetBack

SpecBlocks == InitBlocks /\ [][NextBlocks]_vars

\* the blocks of a Map as a set
BlockSet(blocks) == {blocks[i] : i \in DOMAIN blocks}

\* max(|dx|, |dy|) between a block and the block (x, y)
Chebyshev(b, x, y) ==
    LET dx == IF b.blockX >= x THEN b.blockX - x ELSE x - b.blockX
        dy == IF b.blockY >= y THEN b.blockY - y ELSE y - b.blockY
    IN  IF dx >= dy THEN dx ELSE dy

\* the last action was an animate() whose updateCamera ran unloadFarBlocks
Unloaded == infiniteMap.phase = "running" /\ infiniteMap.unload.called
            /\ infiniteMap.unload.unloaded

\* ... and unloadFarBlocks found the Map over the budget once the far blocks
\* were gone, so that evictOldestBlocks ran
EvictedOldest == Unloaded /\ Len(infiniteMap.unload.near) > MAX_CACHED

\* C21: when unloadFarBlocks() has returned, no cached block is farther than
\* UNLOAD_DISTANCE from the current block, in Chebyshev distance, and the
\* cache holds at most MAX_CACHED blocks.
C21_UnloadFarBlocks ==
    Unloaded =>
        LET u == infiniteMap.unload
        IN  /\ \A b \in BlockSet(u.after) :
                  Chebyshev(b, u.currentBlockX, u.currentBlockY) <= UNLOAD_DISTANCE
            /\ Len(u.after) <= MAX_CACHED

\* unloadFarBlocks deleted a far block that was as near as UNLOAD_DISTANCE
\* in one coordinate, and the blocks left were over the budget
C21_Witness ==
    /\ EvictedOldest
    /\ LET u == infiniteMap.unload
       IN  \E b \in BlockSet(u.before) \ BlockSet(u.near) :
              Chebyshev(b, b.blockX, u.currentBlockY) <= UNLOAD_DISTANCE

\* C22: when the cache is over the budget, evictOldestBlocks evicts exactly
\* size - MAX_CACHED blocks, and no evicted block was accessed later than a
\* block that is retained.
C22_EvictsOldest ==
    EvictedOldest =>
        LET u == infiniteMap.unload
            retained == BlockSet(u.after)
            evicted == BlockSet(u.near) \ retained
        IN  /\ retained \subseteq BlockSet(u.near)
            /\ Cardinality(evicted) = Len(u.near) - MAX_CACHED
            /\ Len(u.after) = MAX_CACHED
            /\ \A e \in evicted, r \in retained :
                  e.lastAccessTime <= r.lastAccessTime

\* evictOldestBlocks evicted a block accessed earlier than one it retained
C22_Witness ==
    /\ EvictedOldest
    /\ LET u == infiniteMap.unload
       IN  \E e \in BlockSet(u.near) \ BlockSet(u.after), r \in BlockSet(u.after) :
              e.lastAccessTime < r.lastAccessTime

\* C28: the cache never holds more than MAX_CACHED blocks, whatever
\* getOrCreateBlock and updateCamera calls the frames and the drags make.
C28_WithinBudget ==
    infiniteMap.phase = "running"
        => Len(infiniteMap.blockManager.blocks) <= MAX_CACHED

\* the last action was an animate(), whose updateCamera got the camera's
\* block, which was cached before the call
CameraBlockCached ==
    /\ infiniteMap.phase = "running"
    /\ infiniteMap.unload.called
    /\ LET u == infiniteMap.unload
       IN  MapGet(u.before, GetBlockKey(u.currentBlockX, u.currentBlockY)) # 0

\* C29: the block that contains the camera, if it is cached before an
\* updateCamera call, is still cached when the call returns.
C29_CameraBlockKept ==
    CameraBlockCached =>
        LET u == infiniteMap.unload
        IN  MapGet(u.after, GetBlockKey(u.currentBlockX, u.currentBlockY)) # 0

----------------------------------------------------------------------------
(* SpecDrag: the map under mouse events, timeouts and animation frames *)

InitDrag ==
    /\ state = "IDLE"
    /\ worker = 0
    /\ initPromise = 0
    /\ nextWorker = 1
    /\ wk = [w \in WorkerIds |-> NoWorkerObject]
    /\ calls = [c \in CallIds |-> NewCall]
    /\ microtasks = <<>>
    /\ taskOpen = FALSE
    /\ fsmLog = <<>>
    /\ droplet = NoDroplet
    /\ hydro = NoHydro
    /\ infiniteMap = NoInfiniteMap
    /\ drag = NewDrag
    /\ moistureMap = NoMoistureMap
    /\ perlin = NoPerlin

NextDrag ==
    \/ DragMouseDown
    \/ DragMouseMove
    \/ DragMoveContinue
    \/ DragFrame
    \/ DragPreviewDone
    \/ DragMouseUp
    \/ DragMouseLeave
    \/ DragTimeout

SpecDrag == InitDrag /\ [][NextDrag]_vars

\* C23: a full generation that the debounce has scheduled and that has not
\* fired when a mousedown comes never runs: after the mousedown no timeout
\* is pending, and no timeout that was pending at a mousedown has fired
\* (what runs after a later mouseup or mouseleave is a timeout set by it).
C23_MouseDownCancels ==
    drag.phase = "ready" =>
        /\ drag.atMouseDown \cap drag.fired = {}
        /\ drag.atMouseDown \cap drag.timers = {}
        /\ drag.last.event = "mousedown" => drag.timers = {}

\* a mousedown found a full generation pending, and the full generation
\* that a later drag end scheduled has run
C23_Witness ==
    /\ drag.phase = "ready"
    /\ \E cancelled \in drag.atMouseDown, later \in drag.fired : later > cancelled

\* C30: a mousemove of a drag that began after an earlier drag had ended
\* leads to a preview generation: when its handler has called
\* schedulePreviewUpdate, the drag still going on, an animation frame is
\* requested or a preview is being generated.
C30_PreviewAfterDragEnd ==
    (/\ drag.phase = "ready"
     /\ drag.last.event = "moved"
     /\ drag.last.inDrag
     /\ drag.last.dragsEnded > 0)
        => drag.rafId \in drag.frames \/ drag.previewing > 0

----------------------------------------------------------------------------
(* SpecMoisture: hydrology passes on the rasters of one generation *)

InitMoisture ==
    /\ state = "IDLE"
    /\ worker = 0
    /\ initPromise = 0
    /\ nextWorker = 1
    /\ wk = [w \in WorkerIds |-> NoWorkerObject]
    /\ calls = [c \in CallIds |-> NewCall]
    /\ microtasks = <<>>
    /\ taskOpen = FALSE
    /\ fsmLog = <<>>
    /\ droplet = NoDroplet
    /\ hydro = NoHydro
    /\ infiniteMap = NoInfiniteMap
    /\ drag = NoDrag
    /\ moistureMap \in {NewMoistureMap(moisture, height, flux) :
                           moisture \in MoistureRasters,
                           height \in {CoastRaster},
                           flux \in FluxRasters}
    /\ perlin = NoPerlin

NextMoisture ==
    \/ HydrologyPass
    \/ HydrologyPassAdvanced
    \/ RiversRegenerated

SpecMoisture == InitMoisture /\ [][NextMoisture]_vars

\* the last two passes were the same function with the same arguments on
\* the same flux
SamePassTwice ==
    /\ moistureMap.phase = "generated"
    /\ Len(moistureMap.passes) = 2
    /\ moistureMap.passes[1].pass = moistureMap.passes[2].pass
    /\ moistureMap.passes[1].flux = moistureMap.passes[2].flux

\* C24: a hydrology pass leaves baseMoisture as generateTerrain made it, and
\* a pass repeated with the same flux and arguments leaves the moisture the
\* first one left.
C24_PassesDoNotCompound ==
    /\ moistureMap.phase = "generated"
           => moistureMap.baseMoisture = moistureMap.generated
    /\ SamePassTwice
           => moistureMap.passes[2].moisture = moistureMap.passes[1].moisture

\* the repeated pass raised a moisture that a further raise would not cap
C24_Witness ==
    /\ SamePassTwice
    /\ \E i \in Pixels :
          /\ moistureMap.moisture[i] > moistureMap.baseMoisture[i]
          /\ moistureMap.moisture[i] < Unit

----------------------------------------------------------------------------
(* SpecNoise: seedings, random numbers and fbm calls on the one PerlinNoise *)

InitNoiseField ==
    /\ state = "IDLE"
    /\ worker = 0
    /\ initPromise = 0
    /\ nextWorker = 1
    /\ wk = [w \in WorkerIds |-> NoWorkerObject]
    /\ calls = [c \in CallIds |-> NewCall]
    /\ microtasks = <<>>
    /\ taskOpen = FALSE
    /\ fsmLog = <<>>
    /\ droplet = NoDroplet
    /\ hydro = NoHydro
    /\ infiniteMap = NoInfiniteMap
    /\ drag = NoDrag
    /\ moistureMap = NoMoistureMap
    /\ perlin = NewPerlin

NextNoise ==
    \/ NoiseSeed
    \/ NoiseRandom
    \/ NoiseFbm

SpecNoise == InitNoiseField /\ [][NextNoise]_vars

\* the last two fbm calls had the same arguments under the same seed
SameFbmTwice ==
    /\ perlin.phase = "ready"
    /\ Len(perlin.fbms) = 2
    /\ perlin.fbms[1].seed = perlin.fbms[2].seed
    /\ perlin.fbms[1].args = perlin.fbms[2].args

\* C25: the table after init(seed) is the table the first init(seed) made,
\* whatever was seeded or drawn in between, and two fbm calls with the same
\* arguments under the same seed return the same number.
C25_SeedDeterminesTable ==
    /\ perlin.phase = "ready" => perlin.p = perlin.tables[perlin.seed]
    /\ SameFbmTwice => perlin.fbms[1].value = perlin.fbms[2].value

\* the same fbm call twice; in between another seed was applied, random
\* numbers were drawn under it and the seed was applied again; the table of
\* another seed gives the call another number
C25_Witness ==
    /\ SameFbmTwice
    /\ perlin.fbms[1].seedings < perlin.fbms[2].seedings
    /\ perlin.earlier # perlin.seed
    /\ perlin.drawn > 0
    /\ \E s \in NoiseSeeds :
          /\ perlin.tables[s] # <<>>
          /\ Fbm(perlin.tables[s], perlin.fbms[2].args[1], perlin.fbms[2].args[2],
                 perlin.fbms[2].args[3], perlin.fbms[2].args[4])
                 # perlin.fbms[2].value

----------------------------------------------------------------------------
(* Calls suspended on a promise of the controller *)

\* call c awaits a promise that init() or generateRivers() of the
\* controller returned
Suspended(c) == calls[c].pc \in {"awaitInit", "awaitGen"}

\* the Worker whose handlers settle the promise call c awaits is alive, so
\* its answer or its error event can still be delivered
CanSettle(c) ==
    IF calls[c].pc = "awaitInit"
    THEN wk[calls[c].wait].status = "alive"
    ELSE \E w \in WorkerIds : /\ wk[w].status = "alive"
                              /\ wk[w].onmessage = "gen"
                              /\ wk[w].owner = c

\* C26: a call suspended on a promise of init() or generateRivers() is
\* never left with a promise that nothing can settle any more: the Worker
\* whose handlers resolve or reject it is still alive, also after reset().
C26_NoCallStranded ==
    \A c \in DOMAIN calls : Suspended(c) => CanSettle(c)


\* C27: a generation that runs on the worker runs on the height raster that
\* is mapData.height when generateRivers is called: the raster the worker
\* was sent is that raster, also when generateTerrain ran while the
\* controller stayed READY.
C27_CurrentRasters ==
    (Served /\ LastRun.path = "worker")
        => LastRun.sent = LastRun.heightBefore

====
